---- MODULE Spec2Model ----
(***************************************************************************)
(* Model of the Flesh and Blood card-database MCP server (src/src/index.ts). *)
(*                                                                         *)
(* The server registers three tools (search_fab_cards, get_fab_card_prints,*)
(* get_card_detail).  Each tool handler is an async function: it builds an *)
(* upstream URL, awaits one axios.get, reshapes the reply and returns a    *)
(* text envelope; a try/catch around the whole body turns every error into *)
(* a text envelope as well.                                                *)
(*                                                                         *)
(* JavaScript values are modelled as tagged records, strings as TLA+       *)
(* strings (characters are read with SubSeq), objects as sequences of      *)
(* <<key, value>> pairs in insertion order.                                *)
(***************************************************************************)
EXTENDS Integers, Sequences, FiniteSets, TLC

VARIABLES
    pc,        \* per call: position of the handler
    tool,      \* per call: the tool that was called
    args,      \* per call: the arguments object the client sent
    requests,  \* per call: the URLs passed to axios.get, in order
    net,       \* per call: what the upstream origin did with the request
    result,    \* per call: the handler's local cards / prints / cardDetail
    response,  \* per call: the envelope the handler returned
    logged,    \* the module-level logger: number of entries written so far
    routed     \* the last HTTP request default.fetch answered, with its answer

vars == <<pc, tool, args, requests, net, result, response, logged, routed>>

-----------------------------------------------------------------------------
(* Bounds of the model *)

\* number of tool calls that may be in flight together
MaxCalls == 2

\* longest results array of an upstream JSON payload
MaxResults == 2

Calls == 1 .. MaxCalls

-----------------------------------------------------------------------------
(* JavaScript values *)

Undefined == [undef |-> TRUE]
Null == [null |-> TRUE]
Str(s) == [str |-> s]
Arr(items) == [arr |-> items]
Obj(pairs) == [obj |-> pairs]

IsUndefined(v) == v = Undefined
IsNull(v) == v = Null
IsNullish(v) == IsUndefined(v) \/ IsNull(v)
IsStr(v) == DOMAIN v = {"str"}
IsArr(v) == DOMAIN v = {"arr"}
IsObj(v) == DOMAIN v = {"obj"}

\* a built-in function, which a property read finds on a prototype
Fn(name) == [fn |-> name]
IsFn(v) == DOMAIN v = {"fn"}

\* typeof-like name used by V8 in its TypeError messages
NullishName(v) == IF IsNull(v) THEN "null" ELSE "undefined"

HasKey(o, k) == IsObj(o) /\ \E i \in DOMAIN o.obj : o.obj[i][1] = k

\* the methods a value inherits: Object.prototype, and String.prototype or
\* Array.prototype before it (`length`, a number, is not a method)
Inherited(o) ==
    {"constructor", "hasOwnProperty", "isPrototypeOf", "propertyIsEnumerable",
     "toLocaleString", "toString", "valueOf"}
    \cup (IF IsStr(o)
          THEN {"anchor", "at", "big", "blink", "bold", "charAt", "charCodeAt",
                "codePointAt", "concat", "endsWith", "fixed", "fontcolor", "fontsize",
                "includes", "indexOf", "italics", "lastIndexOf", "link", "localeCompare",
                "match", "matchAll", "normalize", "padEnd", "padStart", "repeat",
                "replace", "replaceAll", "search", "slice", "small", "split",
                "startsWith", "strike", "sub", "substr", "substring", "sup",
                "toLocaleLowerCase", "toLocaleUpperCase", "toLowerCase", "toUpperCase",
                "trim", "trimEnd", "trimLeft", "trimRight", "trimStart"}
          ELSE IF IsArr(o)
          THEN {"at", "concat", "copyWithin", "entries", "every", "fill", "filter",
                "find", "findIndex", "findLast", "findLastIndex", "flat", "flatMap",
                "forEach", "includes", "indexOf", "join", "keys", "lastIndexOf", "map",
                "pop", "push", "reduce", "reduceRight", "reverse", "shift", "slice",
                "some", "sort", "splice", "unshift", "values"}
          ELSE {})

\* o[k] for a non-nullish o: an own property of an object, else the method of
\* that name o inherits, else undefined
Get(o, k) ==
    IF HasKey(o, k)
    THEN o.obj[CHOOSE i \in DOMAIN o.obj : o.obj[i][1] = k][2]
    ELSE IF k \in Inherited(o) THEN Fn(k)
    ELSE Undefined

\* a thrown value and a normal completion
\* (hasResponse: the error object carries a `response` property)
TypeError(msg) ==
    [isError |-> TRUE, name |-> "TypeError", message |-> msg, hasResponse |-> FALSE]
AxiosError(msg, withResponse) ==
    [isError |-> TRUE, name |-> "AxiosError", message |-> msg,
     hasResponse |-> withResponse]
Throw(e) == [threw |-> TRUE, error |-> e]
Return(v) == [threw |-> FALSE, value |-> v]

\* o.k where o may be nullish: V8 throws a TypeError
ReadOfNullish(o, k) ==
    TypeError("Cannot read properties of " \o NullishName(o)
              \o " (reading '" \o k \o "')")

RECURSIVE JoinLists(_)
JoinLists(lists) ==
    IF Len(lists) = 0 THEN <<>> ELSE lists[1] \o JoinLists(Tail(lists))

RECURSIVE JoinStrings(_, _)
JoinStrings(items, sep) ==
    IF Len(items) = 0 THEN ""
    ELSE IF Len(items) = 1 THEN items[1]
    ELSE items[1] \o sep \o JoinStrings(Tail(items), sep)

\* String(v), as a template literal `${v}` computes it: the string, or the
\* TypeError of an object whose own toString is no function (no value of a
\* JSON body is one); an array joins the strings of its elements
RECURSIVE ToStringJS(_)
ToStringJS(v) ==
    IF IsStr(v) THEN Return(v.str)
    ELSE IF IsUndefined(v) THEN Return("undefined")
    ELSE IF IsNull(v) THEN Return("null")
    ELSE IF IsFn(v) THEN Return("function " \o v.fn \o "() { [native code] }")
    ELSE IF IsArr(v)
         THEN LET parts == [i \in DOMAIN v.arr |->
                               IF IsNullish(v.arr[i]) THEN Return("")
                               ELSE ToStringJS(v.arr[i])]
                  thrown == {i \in DOMAIN parts : parts[i].threw}
              IN IF thrown # {}
                 THEN parts[CHOOSE i \in thrown : \A j \in thrown : i <= j]
                 ELSE Return(JoinStrings([i \in DOMAIN parts |-> parts[i].value], ","))
    ELSE IF HasKey(v, "toString")
         THEN Throw(TypeError("Cannot convert object to primitive value"))
    ELSE Return("[object Object]")

-----------------------------------------------------------------------------
(* JSON.stringify(value, null, 2) *)

Gap == "  "

\* the characters JSON.stringify escapes inside a string literal
EscapeChar(ch) ==
    IF ch = "\"" THEN "\\\""
    ELSE IF ch = "\\" THEN "\\\\"
    ELSE IF ch = "\n" THEN "\\n"
    ELSE IF ch = "\t" THEN "\\t"
    ELSE IF ch = "\r" THEN "\\r"
    ELSE IF ch = "\f" THEN "\\f"
    ELSE ch

\* every character escaped, the string taken by halves
RECURSIVE EscapeString(_)
EscapeString(s) ==
    IF Len(s) = 0 THEN ""
    ELSE IF Len(s) = 1 THEN EscapeChar(s)
    ELSE EscapeString(SubSeq(s, 1, Len(s) \div 2))
         \o EscapeString(SubSeq(s, Len(s) \div 2 + 1, Len(s)))

Quote(s) == "\"" \o EscapeString(s) \o "\""

\* the properties JSON.stringify writes: those whose value is neither
\* undefined nor a function
RECURSIVE DefinedPairs(_)
DefinedPairs(pairs) ==
    IF Len(pairs) = 0 THEN <<>>
    ELSE IF IsUndefined(pairs[1][2]) \/ IsFn(pairs[1][2]) THEN DefinedPairs(Tail(pairs))
    ELSE <<pairs[1]>> \o DefinedPairs(Tail(pairs))

RECURSIVE Serialize(_, _)
RECURSIVE SerializeArray(_, _, _)
RECURSIVE SerializeObject(_, _, _)
Serialize(v, indent) ==
    IF IsStr(v) THEN Quote(v.str)
    ELSE IF IsNullish(v) \/ IsFn(v) THEN "null"
    ELSE IF IsArr(v) THEN SerializeArray(v.arr, indent, indent \o Gap)
    ELSE SerializeObject(DefinedPairs(v.obj), indent, indent \o Gap)

SerializeArray(items, indent, inner) ==
    IF Len(items) = 0 THEN "[]"
    ELSE "[\n" \o inner
         \o JoinStrings([i \in DOMAIN items |-> Serialize(items[i], inner)],
                        ",\n" \o inner)
         \o "\n" \o indent \o "]"

SerializeObject(ps, indent, inner) ==
    IF Len(ps) = 0 THEN "{}"
    ELSE "{\n" \o inner
         \o JoinStrings([i \in DOMAIN ps |->
                            Quote(ps[i][1]) \o ": " \o Serialize(ps[i][2], inner)],
                        ",\n" \o inner)
         \o "\n" \o indent \o "}"

JSONstringify(v) == Serialize(v, "")

-----------------------------------------------------------------------------
(* encodeURIComponent *)

UriUnreserved ==
    {"A","B","C","D","E","F","G","H","I","J","K","L","M","N","O","P","Q","R",
     "S","T","U","V","W","X","Y","Z",
     "a","b","c","d","e","f","g","h","i","j","k","l","m","n","o","p","q","r",
     "s","t","u","v","w","x","y","z",
     "0","1","2","3","4","5","6","7","8","9",
     "-","_",".","!","~","*","'","(",")"}

\* the percent escapes of the ASCII characters that are not unreserved
PercentEscape(ch) ==
    CASE ch = "\t" -> "%09"
      [] ch = "\n" -> "%0A"
      [] ch = "\f" -> "%0C"
      [] ch = "\r" -> "%0D"
      [] ch = " " -> "%20"
      [] ch = "\"" -> "%22"
      [] ch = "#" -> "%23"
      [] ch = "$" -> "%24"
      [] ch = "%" -> "%25"
      [] ch = "&" -> "%26"
      [] ch = "+" -> "%2B"
      [] ch = "," -> "%2C"
      [] ch = "/" -> "%2F"
      [] ch = ":" -> "%3A"
      [] ch = ";" -> "%3B"
      [] ch = "<" -> "%3C"
      [] ch = "=" -> "%3D"
      [] ch = ">" -> "%3E"
      [] ch = "?" -> "%3F"
      [] ch = "@" -> "%40"
      [] ch = "[" -> "%5B"
      [] ch = "\\" -> "%5C"
      [] ch = "]" -> "%5D"
      [] ch = "^" -> "%5E"
      [] ch = "{" -> "%7B"
      [] ch = "|" -> "%7C"
      [] ch = "}" -> "%7D"

RECURSIVE encodeURIComponent(_)
encodeURIComponent(s) ==
    IF Len(s) = 0 THEN ""
    ELSE LET ch == SubSeq(s, 1, 1) IN
         (IF ch \in UriUnreserved THEN ch ELSE PercentEscape(ch))
         \o encodeURIComponent(SubSeq(s, 2, Len(s)))

Origin == "https://cards.fabtcg.com"

-----------------------------------------------------------------------------
(* The three tools and their input schemas *)

SearchTool == "search_fab_cards"
PrintsTool == "get_fab_card_prints"
DetailTool == "get_card_detail"
Tools == {SearchTool, PrintsTool, DetailTool}

\* z.string(): any string, the empty one included
ZString(v) == IsStr(v)

\* z.string().optional()
ZStringOptional(v) == IsStr(v) \/ IsUndefined(v)

\* the zod shape registered with each tool; the SDK runs it before the handler
SchemaAccepts(t, a) ==
    IF t = SearchTool THEN ZString(Get(a, "query"))
    ELSE IF t = PrintsTool THEN ZString(Get(a, "cardId"))
    ELSE ZString(Get(a, "cardId")) /\ ZStringOptional(Get(a, "printId"))

\* faulty variant: the test `printId !== undefined`
Supplied(v) == IsStr(v)

\* JavaScript truthiness of a string-or-undefined argument
Truthy(v) == IsStr(v) /\ v.str # ""

\* the URL each handler passes to axios.get
SearchUrl(a) ==
    Origin \o "/api/search/v1/cards/?q=" \o encodeURIComponent(Get(a, "query").str)

PrintsUrl(a) ==
    Origin \o "/api/fab/v1/prints/?card_id=" \o encodeURIComponent(Get(a, "cardId").str)

\* faulty variant: the print identifier is left out of the path
DetailUrlCardOnly(a) ==
    Origin \o "/card/" \o encodeURIComponent(Get(a, "cardId").str) \o "/"

DetailUrl(a) ==
    IF Truthy(Get(a, "printId"))
    THEN Origin \o "/card/" \o encodeURIComponent(Get(a, "cardId").str)
                \o "/" \o encodeURIComponent(Get(a, "printId").str) \o "/"
    ELSE Origin \o "/card/" \o encodeURIComponent(Get(a, "cardId").str) \o "/"

RequestUrl(t, a) ==
    IF t = SearchTool THEN SearchUrl(a)
    ELSE IF t = PrintsTool THEN PrintsUrl(a)
    ELSE DetailUrl(a)

-----------------------------------------------------------------------------
(* What the upstream origin can do with a request, as axios.get reports it *)

NoReply == [kind |-> "none"]          \* nothing decided yet
Silent == [kind |-> "silent"]         \* the origin never answers
NetworkFailure == [kind |-> "network"]
HttpStatus(n) == [kind |-> "status", status |-> n]
Body(data) == [kind |-> "ok", status |-> 200, data |-> data]

\* the promise of axios.get has been fulfilled or rejected
Settled(r) == r.kind \in {"network", "status", "ok"}

\* await axios.get(url): the response object, or the AxiosError it rejects with
AxiosGet(r) ==
    IF r.kind = "network" THEN Throw(AxiosError("Network Error", FALSE))
    ELSE IF r.kind = "status"
         THEN Throw(AxiosError("Request failed with status code "
                               \o ToString(r.status), TRUE))
    ELSE Return(r)

-----------------------------------------------------------------------------
(* results.map(f): the mapped array, or the first error f throws *)

\* faulty variant: an item that throws ends the list with the items mapped
\* before it
MapStepKeepDone(first, rest) ==
    IF first.threw THEN Return(<<>>)
    ELSE IF rest.threw THEN Return(<<first.value>>)
    ELSE Return(<<first.value>> \o rest.value)

\* the first error wins; otherwise the mapped items in order
MapStep(first, rest) ==
    IF first.threw THEN first
    ELSE IF rest.threw THEN rest
    ELSE Return(<<first.value>> \o rest.value)

\* faulty variant: (data.results || []).map(...), a body without results
\* counts as an empty list
ResultsOrEmpty(data) ==
    IF IsNullish(data) THEN Throw(ReadOfNullish(data, "results"))
    ELSE IF ~IsArr(Get(data, "results")) THEN Return(<<>>)
    ELSE Return(Get(data, "results").arr)

ArrayOf(mapped) == IF mapped.threw THEN mapped ELSE Return(Arr(mapped.value))

\* response.data.results?.length, then data.results.map: the items of the
\* results array, or the TypeError of reaching for them
Results(data) ==
    IF IsNullish(data) THEN Throw(ReadOfNullish(data, "results"))
    ELSE IF IsNullish(Get(data, "results"))
         THEN Throw(ReadOfNullish(Get(data, "results"), "map"))
    ELSE IF ~IsArr(Get(data, "results"))
         THEN Throw(TypeError("data.results.map is not a function"))
    ELSE Return(Get(data, "results").arr)

\* faulty variant: the thumbnail is taken for the primary image
ToCardSmallImage(card) ==
    IF IsNullish(card) THEN Throw(ReadOfNullish(card, "card_id"))
    ELSE IF ToStringJS(Get(card, "url")).threw THEN ToStringJS(Get(card, "url"))
    ELSE IF IsNullish(Get(card, "image"))
         THEN Throw(ReadOfNullish(Get(card, "image"), "normal"))
    ELSE Return(Obj(<<
        <<"id", Get(card, "card_id")>>,
        <<"name", Get(card, "name")>>,
        <<"displayName", Get(card, "display_name")>>,
        <<"cardUrl", Str(Origin \o ToStringJS(Get(card, "url")).value)>>,
        <<"imageUrl", Get(Get(card, "image"), "small")>>,
        <<"pitch", Get(card, "pitch")>>,
        <<"cost", Get(card, "cost")>>,
        <<"power", Get(card, "power")>>,
        <<"defense", Get(card, "defense")>>,
        <<"text", Get(card, "text")>>,
        <<"textHtml", Get(card, "text_html")>>,
        <<"typebox", Get(card, "typebox")>> >>))

\* faulty variant: card.text.trim(), which throws when text is missing
ToCardTrimText(card) ==
    IF IsNullish(card) THEN Throw(ReadOfNullish(card, "card_id"))
    ELSE IF ToStringJS(Get(card, "url")).threw THEN ToStringJS(Get(card, "url"))
    ELSE IF IsNullish(Get(card, "image"))
         THEN Throw(ReadOfNullish(Get(card, "image"), "normal"))
    ELSE IF IsNullish(Get(card, "text"))
         THEN Throw(ReadOfNullish(Get(card, "text"), "trim"))
    ELSE Return(Obj(<<
        <<"id", Get(card, "card_id")>>,
        <<"name", Get(card, "name")>>,
        <<"displayName", Get(card, "display_name")>>,
        <<"cardUrl", Str(Origin \o ToStringJS(Get(card, "url")).value)>>,
        <<"imageUrl", Get(Get(card, "image"), "normal")>>,
        <<"pitch", Get(card, "pitch")>>,
        <<"cost", Get(card, "cost")>>,
        <<"power", Get(card, "power")>>,
        <<"defense", Get(card, "defense")>>,
        <<"text", Get(card, "text")>>,
        <<"textHtml", Get(card, "text_html")>>,
        <<"typebox", Get(card, "typebox")>> >>))

\* the arrow function of search_fab_cards: one Card per result entry
ToCard(card) ==
    IF IsNullish(card) THEN Throw(ReadOfNullish(card, "card_id"))
    ELSE IF ToStringJS(Get(card, "url")).threw THEN ToStringJS(Get(card, "url"))
    ELSE IF IsNullish(Get(card, "image"))
         THEN Throw(ReadOfNullish(Get(card, "image"), "normal"))
    ELSE Return(Obj(<<
        <<"id", Get(card, "card_id")>>,
        <<"name", Get(card, "name")>>,
        <<"displayName", Get(card, "display_name")>>,
        <<"cardUrl", Str(Origin \o ToStringJS(Get(card, "url")).value)>>,
        <<"imageUrl", Get(Get(card, "image"), "normal")>>,
        <<"pitch", Get(card, "pitch")>>,
        <<"cost", Get(card, "cost")>>,
        <<"power", Get(card, "power")>>,
        <<"defense", Get(card, "defense")>>,
        <<"text", Get(card, "text")>>,
        <<"textHtml", Get(card, "text_html")>>,
        <<"typebox", Get(card, "typebox")>> >>))

\* faulty variant: the layout is reduced to its key
ToPrintLayoutKey(print) ==
    IF IsNullish(print) THEN Throw(ReadOfNullish(print, "print_id"))
    ELSE IF IsNullish(Get(print, "image"))
         THEN Throw(ReadOfNullish(Get(print, "image"), "normal"))
    ELSE Return(Obj(<<
        <<"printId", Get(print, "print_id")>>,
        <<"cardId", Get(print, "card_id")>>,
        <<"name", Get(print, "name")>>,
        <<"displayName", Get(print, "display_name")>>,
        <<"pitch", Get(print, "pitch")>>,
        <<"imageUrl", Get(Get(print, "image"), "normal")>>,
        <<"imageUrlSmall", Get(Get(print, "image"), "small")>>,
        <<"imageUrlLarge", Get(Get(print, "image"), "large")>>,
        <<"layout", Get(Get(print, "layout"), "key")>>,
        <<"finishTypes", Get(print, "finish_types")>> >>))

\* the arrow function of get_fab_card_prints: one CardPrint per result entry
ToPrint(print) ==
    IF IsNullish(print) THEN Throw(ReadOfNullish(print, "print_id"))
    ELSE IF IsNullish(Get(print, "image"))
         THEN Throw(ReadOfNullish(Get(print, "image"), "normal"))
    ELSE Return(Obj(<<
        <<"printId", Get(print, "print_id")>>,
        <<"cardId", Get(print, "card_id")>>,
        <<"name", Get(print, "name")>>,
        <<"displayName", Get(print, "display_name")>>,
        <<"pitch", Get(print, "pitch")>>,
        <<"imageUrl", Get(Get(print, "image"), "normal")>>,
        <<"imageUrlSmall", Get(Get(print, "image"), "small")>>,
        <<"imageUrlLarge", Get(Get(print, "image"), "large")>>,
        <<"layout", Get(print, "layout")>>,
        <<"finishTypes", Get(print, "finish_types")>> >>))

RECURSIVE MapCards(_)
MapCards(items) ==
    IF Len(items) = 0 THEN Return(<<>>)
    ELSE MapStep(ToCard(items[1]), MapCards(Tail(items)))

RECURSIVE MapPrints(_)
MapPrints(items) ==
    IF Len(items) = 0 THEN Return(<<>>)
    ELSE MapStep(ToPrint(items[1]), MapPrints(Tail(items)))

CardsOf(results) ==
    IF results.threw THEN results ELSE ArrayOf(MapCards(results.value))

PrintsOf(results) ==
    IF results.threw THEN results ELSE ArrayOf(MapPrints(results.value))

\* const cards = data.results.map(...)
NormalizeSearch(data) == CardsOf(Results(data))

\* const prints = data.results.map(...)
NormalizePrints(data) == PrintsOf(Results(data))

-----------------------------------------------------------------------------
(* String helpers of the detail extractor *)

\* WhiteSpace and LineTerminator characters a string of the model can hold
Whitespace == {" ", "\n", "\t", "\r", "\f"}
Digits == {"0","1","2","3","4","5","6","7","8","9"}
UpperCase ==
    {"A","B","C","D","E","F","G","H","I","J","K","L","M","N","O","P","Q","R",
     "S","T","U","V","W","X","Y","Z"}

CharAt(s, i) == SubSeq(s, i, i)

RECURSIVE TrimStart(_)
TrimStart(s) ==
    IF Len(s) > 0 /\ CharAt(s, 1) \in Whitespace
    THEN TrimStart(SubSeq(s, 2, Len(s))) ELSE s

RECURSIVE TrimEnd(_)
TrimEnd(s) ==
    IF Len(s) > 0 /\ CharAt(s, Len(s)) \in Whitespace
    THEN TrimEnd(SubSeq(s, 1, Len(s) - 1)) ELSE s

\* String.prototype.trim
Trim(s) == TrimEnd(TrimStart(s))

\* s.replace(/[^0-9]/g, '')
RECURSIVE StripNonDigits(_)
StripNonDigits(s) ==
    IF Len(s) = 0 THEN ""
    ELSE (IF CharAt(s, 1) \in Digits THEN CharAt(s, 1) ELSE "")
         \o StripNonDigits(SubSeq(s, 2, Len(s)))

\* s.includes(sub)
Contains(s, sub) ==
    \E i \in 1 .. (Len(s) - Len(sub) + 1) : SubSeq(s, i, i + Len(sub) - 1) = sub

\* s.split(sep) for a one-character separator: the parts, at least one
RECURSIVE SplitFrom(_, _, _)
SplitFrom(s, sep, part) ==
    IF Len(s) = 0 THEN <<part>>
    ELSE IF CharAt(s, 1) = sep
         THEN <<part>> \o SplitFrom(SubSeq(s, 2, Len(s)), sep, "")
    ELSE SplitFrom(SubSeq(s, 2, Len(s)), sep, part \o CharAt(s, 1))

Split(s, sep) == SplitFrom(s, sep, "")

\* faulty variant: the pattern lacks its ^ anchor and its case, /([A-Za-z]{2})_/
LooseLanguageMatch(printId) ==
    IF \E i \in 1 .. Len(printId) - 2 :
          /\ CharAt(printId, i) \in UpperCase \cup {"a", "j"}
          /\ CharAt(printId, i + 1) \in UpperCase \cup {"a", "j"}
          /\ CharAt(printId, i + 2) = "_"
    THEN LET i == CHOOSE i \in 1 .. Len(printId) - 2 :
                    /\ CharAt(printId, i) \in UpperCase \cup {"a", "j"}
                    /\ CharAt(printId, i + 1) \in UpperCase \cup {"a", "j"}
                    /\ CharAt(printId, i + 2) = "_"
         IN SubSeq(printId, i, i + 1)
    ELSE ""

\* variantPrintId.match(/^([A-Z]{2})_/): the captured group, or "" for no match
LanguageMatch(printId) ==
    IF /\ Len(printId) >= 3
       /\ CharAt(printId, 1) \in UpperCase
       /\ CharAt(printId, 2) \in UpperCase
       /\ CharAt(printId, 3) = "_"
    THEN SubSeq(printId, 1, 2)
    ELSE ""

\* faulty variant: the whole match languageMatch[0] instead of the group
LanguageWholeMatch(printId) ==
    IF LanguageMatch(printId) # "" THEN SubSeq(printId, 1, 3) ELSE "EN"

\* const language = languageMatch ? languageMatch[1] : 'EN'
Language(printId) ==
    IF LanguageMatch(printId) # "" THEN LanguageMatch(printId) ELSE "EN"

\* What axios.get does with the URL string before the request leaves: the
\* URL parser of the platform splits it and resolves the dot segments of its
\* path, and the request goes to the resolved target.

\* index of the first character of s that is in the set, Len(s) + 1 for none
RECURSIVE FirstOf(_, _, _)
FirstOf(s, chars, i) ==
    IF i > Len(s) THEN i
    ELSE IF CharAt(s, i) \in chars THEN i
    ELSE FirstOf(s, chars, i + 1)

\* the URL without its origin: path, query and fragment
AfterOrigin(url) == SubSeq(url, Len(Origin) + 1, Len(url))

UrlPath(url) ==
    SubSeq(AfterOrigin(url), 1, FirstOf(AfterOrigin(url), {"?", "#"}, 1) - 1)

\* the query of an https URL as the parser keeps it: of the characters
\* encodeURIComponent leaves alone, the apostrophe is percent-encoded
RECURSIVE QueryEncode(_)
QueryEncode(s) ==
    IF Len(s) = 0 THEN ""
    ELSE (IF CharAt(s, 1) = "'" THEN "%27" ELSE CharAt(s, 1))
         \o QueryEncode(SubSeq(s, 2, Len(s)))

\* the query string without its "?", up to the fragment
UrlQuery(url) ==
    LET rest == SubSeq(AfterOrigin(url), FirstOf(AfterOrigin(url), {"?", "#"}, 1),
                       Len(AfterOrigin(url)))
    IN IF Len(rest) > 0 /\ CharAt(rest, 1) = "?"
       THEN QueryEncode(SubSeq(rest, 2, FirstOf(rest, {"#"}, 1) - 1))
       ELSE ""

DropLast(segments) ==
    IF Len(segments) = 0 THEN segments ELSE SubSeq(segments, 1, Len(segments) - 1)

\* the path segments with "." dropped and ".." taking the segment before it
RECURSIVE ResolveDots(_, _)
ResolveDots(segments, done) ==
    IF Len(segments) = 0 THEN done
    ELSE IF segments[1] = ".."
         THEN ResolveDots(Tail(segments),
                          IF Len(segments) = 1 THEN Append(DropLast(done), "")
                          ELSE DropLast(done))
    ELSE IF segments[1] = "."
         THEN ResolveDots(Tail(segments),
                          IF Len(segments) = 1 THEN Append(done, "") ELSE done)
    ELSE ResolveDots(Tail(segments), Append(done, segments[1]))

\* the segments of the path the request asks for ("" last for a trailing /)
TargetSegments(url) == ResolveDots(Tail(Split(UrlPath(url), "/")), <<>>)

\* the name=value parameters of the query string
QueryParameters(url) ==
    IF UrlQuery(url) = "" THEN <<>> ELSE Split(UrlQuery(url), "&")

\* Stand-ins for the non-ASCII literals of the source, which a TLA+ string
\* cannot hold: the page texts of the model use the same stand-ins.
\*   PitchLabel   for the selector text  ピッチ:
\*   PowerLabel   for the selector text  パワー
\*   DefenseLabel for the selector text  防御
\*   Bullet       for the separator      • (U+2022)
PitchLabel == "Picchi:"
CostLabel == "Cost"
PowerLabel == "Pawaa"
DefenseLabel == "Bougyo"
Bullet == "|"

-----------------------------------------------------------------------------
(* The parsed document: cheerio.load(html) and the selector calls *)

\* an element as the markup nests it: tag, marks (its classes, written .name,
\* and its attributes, written [name] or [name=value]), src attribute, the
\* text directly inside it, and its child elements
El(tag, marks, src, text, kids) ==
    [tag |-> tag, marks |-> marks, src |-> src, text |-> text, kids |-> kids]

\* the tree in document order: node i has a parent index (0: the root) < i
RECURSIVE Flatten(_, _, _)
RECURSIVE FlattenKids(_, _, _)
Flatten(el, parent, at) ==
    <<[parent |-> parent, tag |-> el.tag, marks |-> el.marks,
       src |-> el.src, text |-> el.text]>>
    \o FlattenKids(el.kids, at, at + 1)

FlattenKids(kids, parent, at) ==
    IF Len(kids) = 0 THEN <<>>
    ELSE LET first == Flatten(kids[1], parent, at) IN
         first \o FlattenKids(Tail(kids), parent, at + Len(first))

\* cheerio.load: the node table of the document
Load(root) == Flatten(root, 0, 1)

RECURSIVE IsAncestor(_, _, _)
IsAncestor(doc, a, n) ==
    /\ doc[n].parent # 0
    /\ (doc[n].parent = a \/ IsAncestor(doc, a, doc[n].parent))

\* the ancestors of a node
RECURSIVE Ancestors(_, _)
Ancestors(doc, n) ==
    IF doc[n].parent = 0 THEN {}
    ELSE {doc[n].parent} \cup Ancestors(doc, doc[n].parent)

\* the nodes carrying a class or attribute
Marked(doc, m) == {n \in DOMAIN doc : m \in doc[n].marks}

Tagged(doc, t) == {n \in DOMAIN doc : doc[n].tag = t}

\* "A B", $(A).find(B): the nodes of B with an ancestor in A
Inside(doc, A, B) == {n \in B : Ancestors(doc, n) \cap A # {}}

\* B:first-child and B:last-child
FirstChild(doc, B) ==
    {n \in B : \A m \in DOMAIN doc : doc[m].parent = doc[n].parent => n <= m}
LastChild(doc, B) ==
    {n \in B : \A m \in DOMAIN doc : doc[m].parent = doc[n].parent => m <= n}

\* .parent()
Parents(doc, S) == {doc[n].parent : n \in S} \ {0}

\* a set of nodes in document order
RECURSIVE InOrder(_)
InOrder(S) ==
    IF S = {} THEN <<>>
    ELSE LET least == CHOOSE n \in S : \A m \in S : n <= m IN
         <<least>> \o InOrder(S \ {least})

\* the text of one element: its own text and that of its descendants, which
\* follow it in the table
RECURSIVE SubtreeText(_, _, _)
SubtreeText(doc, n, i) ==
    IF i > Len(doc) \/ (i # n /\ ~IsAncestor(doc, n, i)) THEN ""
    ELSE doc[i].text \o SubtreeText(doc, n, i + 1)

TextOfNode(doc, n) == SubtreeText(doc, n, n)

\* .text() of a selection: the texts of all its elements, concatenated
RECURSIVE TextFrom(_, _, _)
TextFrom(doc, S, i) ==
    IF i > Len(doc) THEN ""
    ELSE (IF i \in S THEN TextOfNode(doc, i) ELSE "") \o TextFrom(doc, S, i + 1)

Text(doc, S) == IF S = {} THEN "" ELSE TextFrom(doc, S, 1)

\* B:contains("...")
ContainsText(doc, B, sub) == {n \in B : Contains(TextOfNode(doc, n), sub)}

\* .attr('src') of a selection: that of its first element
AttrSrc(doc, S) ==
    IF S = {} THEN Undefined
    ELSE doc[CHOOSE n \in S : \A m \in S : n <= m].src

-----------------------------------------------------------------------------
(* get_card_detail: the extraction rules, applied to the parsed document *)

\* s || '' for an attribute value
OrEmpty(v) == IF Truthy(v) THEN v.str ELSE ""

\* a || b for two strings
OrElse(a, b) == IF a # "" THEN a ELSE b

\* $('.card-details__face img').attr('src') || ''
ImageUrl(doc) ==
    OrEmpty(AttrSrc(doc, Inside(doc, Marked(doc, ".card-details__face"),
                                Tagged(doc, "img"))))

\* $('.card-details__variant [data-component-variant-is-current]')
\*     .parent().find('[data-component-variant-print-id]').text()
CurrentPrintId(doc) ==
    LET markers == Inside(doc, Marked(doc, ".card-details__variant"),
                          Marked(doc, "[data-component-variant-is-current]"))
    IN Text(doc, Inside(doc, Parents(doc, markers),
                        Marked(doc, "[data-component-variant-print-id]")))

RulesTab(doc) == Marked(doc, "[data-component-tab=rules]")
PrintTab(doc) == Marked(doc, "[data-component-tab=print]")

\* a title read from the tab, or else from any tab of the page
TabNameAnyTab(doc, tab) ==
    OrElse(Trim(Text(doc, Inside(doc, tab, Marked(doc, ".card-details-data__title-text")))),
           Trim(Text(doc, Marked(doc, ".card-details-data__title-text"))))

\* tab.find('.card-details-data__title-text').text().trim()
TabName(doc, tab) ==
    Trim(Text(doc, Inside(doc, tab, Marked(doc, ".card-details-data__title-text"))))

\* tab.find('.card-details-data__blurb div').text().trim(): a selector with
\* a descendant combinator is matched below the context, blurb and div alike
TabText(doc, tab) ==
    Trim(Text(doc, Inside(doc, Inside(doc, tab, Marked(doc, ".card-details-data__blurb")),
                          Tagged(doc, "div"))))

\* tab.find('.card-details-data__footer-text').text().trim()
TabTypebox(doc, tab) ==
    Trim(Text(doc, Inside(doc, tab, Marked(doc, ".card-details-data__footer-text"))))

Corners(doc) == Marked(doc, ".card-details-data__corner")
\* tab.find('.card-details-data__footer .card-details-data__corner')
FooterCorners(doc, tab) ==
    Inside(doc, Inside(doc, tab, Marked(doc, ".card-details-data__footer")), Corners(doc))
Spans(doc) == Tagged(doc, "span")

\* $('.card-details-data__corner:contains(PitchLabel)').text().replace(/[^0-9]/g, '')
\*   || rulesTab.find('.card-details-data__corner:first-child span:last-child')
\*          .text().trim()
Pitch(doc) ==
    OrElse(StripNonDigits(Text(doc, ContainsText(doc, Corners(doc), PitchLabel))),
           Trim(Text(doc, Inside(doc, FirstChild(doc, Inside(doc, RulesTab(doc), Corners(doc))),
                                 LastChild(doc, Spans(doc))))))

\* rulesTab.find('.card-details-data__corner:contains("Cost") span').text().trim()
Cost(doc) ==
    Trim(Text(doc, Inside(doc, ContainsText(doc, Inside(doc, RulesTab(doc), Corners(doc)),
                                            CostLabel),
                          Spans(doc))))

\* rulesTab.find('.card-details-data__corner:contains(PowerLabel) span').text().trim()
\*   || rulesTab.find('.card-details-data__footer
\*          .card-details-data__corner:first-child span:last-child').text().trim()
Power(doc) ==
    OrElse(Trim(Text(doc, Inside(doc, ContainsText(doc, Inside(doc, RulesTab(doc), Corners(doc)),
                                                   PowerLabel),
                                 Spans(doc)))),
           Trim(Text(doc, Inside(doc, FirstChild(doc, FooterCorners(doc, RulesTab(doc))),
                                 LastChild(doc, Spans(doc))))))

\* rulesTab.find('.card-details-data__corner:contains(DefenseLabel) span').text().trim()
\*   || rulesTab.find('.card-details-data__footer
\*          .card-details-data__corner:last-child span:first-child').text().trim()
Defense(doc) ==
    OrElse(Trim(Text(doc, Inside(doc, ContainsText(doc, Inside(doc, RulesTab(doc), Corners(doc)),
                                                   DefenseLabel),
                                 Spans(doc)))),
           Trim(Text(doc, Inside(doc, LastChild(doc, FooterCorners(doc, RulesTab(doc))),
                                 FirstChild(doc, Spans(doc))))))

ProductionWrapper(doc) == Marked(doc, ".card-details__production-details-wrapper")

\* $('.card-details__production-details-wrapper p:first-child').text()
ProductionInfo(doc) ==
    Text(doc, Inside(doc, ProductionWrapper(doc), FirstChild(doc, Tagged(doc, "p"))))

\* faulty variant: a missing rarity is the empty string
SecondOrEmpty(parts) == IF Len(parts) >= 2 THEN Str(Trim(parts[2])) ELSE Str("")

\* const [set, rarity] = productionInfo.split(Bullet).map(item => item.trim())
First(parts) == Str(Trim(parts[1]))
Second(parts) == IF Len(parts) >= 2 THEN Str(Trim(parts[2])) ELSE Undefined

SetName(doc) == First(Split(ProductionInfo(doc), Bullet))
Rarity(doc) == Second(Split(ProductionInfo(doc), Bullet))

\* $('.card-details__production-details-wrapper p:last-child a').text().trim()
Artist(doc) ==
    Trim(Text(doc, Inside(doc, Inside(doc, ProductionWrapper(doc),
                                      LastChild(doc, Tagged(doc, "p"))),
                          Tagged(doc, "a"))))

\* $el.find('[...]').text() inside one variant block
VariantField(doc, block, m) == Text(doc, Inside(doc, {block}, Marked(doc, m)))

\* faulty variant: if (variantPrintId) variants.push({...})
PushVariantIdOnly(variantPrintId, variantSetName, variantFinishType, variantUrl) ==
    IF variantPrintId # ""
    THEN <<Obj(<< <<"printId", Str(variantPrintId)>>,
                  <<"language", Str(Language(variantPrintId))>>,
                  <<"setName", Str(variantSetName)>>,
                  <<"finishType", Str(variantFinishType)>>,
                  <<"url", Str(Origin \o variantUrl)>> >>)>>
    ELSE <<>>

\* if (variantPrintId && variantUrl) variants.push({...}): one entry or none
PushVariant(variantPrintId, variantSetName, variantFinishType, variantUrl) ==
    IF variantPrintId # "" /\ variantUrl # ""
    THEN <<Obj(<< <<"printId", Str(variantPrintId)>>,
                  <<"language", Str(Language(variantPrintId))>>,
                  <<"setName", Str(variantSetName)>>,
                  <<"finishType", Str(variantFinishType)>>,
                  <<"url", Str(Origin \o variantUrl)>> >>)>>
    ELSE <<>>

\* the body of the .each callback
VariantEntry(doc, block) ==
    PushVariant(VariantField(doc, block, "[data-component-variant-print-id]"),
                VariantField(doc, block, "[data-component-variant-name]"),
                VariantField(doc, block, "[data-component-variant-finish-type-display]"),
                VariantField(doc, block, "[data-component-variant-link]"))

\* faulty variant: variants.unshift(...), the last block first
RECURSIVE VariantsOfReversed(_, _)
VariantsOfReversed(doc, blocks) ==
    IF Len(blocks) = 0 THEN <<>>
    ELSE VariantsOfReversed(doc, Tail(blocks)) \o VariantEntry(doc, blocks[1])

RECURSIVE VariantsOf(_, _)
VariantsOf(doc, blocks) ==
    IF Len(blocks) = 0 THEN <<>>
    ELSE VariantEntry(doc, blocks[1]) \o VariantsOf(doc, Tail(blocks))

\* $('[data-component-variant]').each(...)
Variants(doc) == VariantsOf(doc, InOrder(Marked(doc, "[data-component-variant]")))

\* faulty variant: the requested print wins over the page's active one
ResolveRequestedFirst(currentPrintId, printId) ==
    IF Truthy(printId) THEN printId.str
    ELSE IF currentPrintId # "" THEN currentPrintId
    ELSE ""

\* printId: currentPrintId || printId || ''
ResolvePrintId(currentPrintId, printId) ==
    IF currentPrintId # "" THEN currentPrintId
    ELSE IF Truthy(printId) THEN printId.str
    ELSE ""

\* faulty variant: the record carries the identifier as the URL does
CardIdEncoded(a) == Str(encodeURIComponent(Get(a, "cardId").str))

\* cardId, (shorthand property: the destructured argument)
CardIdField(a) == Get(a, "cardId")

\* const cardDetail: CardDetail = { ... }
CardDetail(doc, a) ==
    Obj(<< <<"cardId", CardIdField(a)>>,
           <<"printId", Str(ResolvePrintId(CurrentPrintId(doc), Get(a, "printId")))>>,
           <<"imageUrl", Str(ImageUrl(doc))>>,
           <<"enName", Str(TabName(doc, RulesTab(doc)))>>,
           <<"enText", Str(TabText(doc, RulesTab(doc)))>>,
           <<"enTypebox", Str(TabTypebox(doc, RulesTab(doc)))>>,
           <<"jaName", Str(TabName(doc, PrintTab(doc)))>>,
           <<"jaText", Str(TabText(doc, PrintTab(doc)))>>,
           <<"jaTypebox", Str(TabTypebox(doc, PrintTab(doc)))>>,
           <<"pitch", Str(Pitch(doc))>>,
           <<"cost", Str(Cost(doc))>>,
           <<"power", Str(Power(doc))>>,
           <<"defense", Str(Defense(doc))>>,
           <<"set", SetName(doc)>>,
           <<"rarity", Rarity(doc)>>,
           <<"artist", Str(Artist(doc))>>,
           <<"variants", Arr(Variants(doc))>> >>)

-----------------------------------------------------------------------------
(* The HTML body of a card page.  A body is given by a description of its   *)
(* regions; HtmlTree is the element tree the markup of that body nests.     *)

Leaf(tag, marks, text) == El(tag, marks, Undefined, text, <<>>)

\* one attribute badge: <div class=corner><span>label</span><span>value</span></div>
CornerEl(label, value) ==
    El("div", {".card-details-data__corner"}, Undefined, "",
       <<Leaf("span", {}, label), Leaf("span", {}, value)>>)

\* a badge is in the markup only when the card has the attribute
CornerIf(label, value) == IF value = "" THEN <<>> ELSE <<CornerEl(label, value)>>

\* one language tab: header (pitch, title, cost), blurb, footer (power, type, defense)
TabEl(which, tab) ==
    El("div", {"[data-component-tab=" \o which \o "]"}, Undefined, "",
       << El("div", {".card-details-data__header"}, Undefined, "",
             CornerIf(tab.labels[1], tab.pitch)
             \o <<Leaf("div", {".card-details-data__title-text"}, tab.title)>>
             \o CornerIf(tab.labels[2], tab.cost)),
          El("div", {".card-details-data__blurb"}, Undefined, "",
             <<Leaf("div", {}, tab.blurb)>>),
          El("div", {".card-details-data__footer"}, Undefined, "",
             CornerIf(tab.labels[3], tab.power)
             \o <<Leaf("div", {".card-details-data__footer-text"}, tab.typebox)>>
             \o CornerIf(tab.labels[4], tab.defense)) >>)

\* one variant block of the variant selector
VariantEl(block) ==
    El("div", {".card-details__variant", "[data-component-variant]"}, Undefined, "",
       (IF block.current
        THEN <<Leaf("span", {"[data-component-variant-is-current]"}, "")>>
        ELSE <<>>)
       \o << Leaf("span", {"[data-component-variant-print-id]"}, block.printId),
             Leaf("span", {"[data-component-variant-name]"}, block.name),
             Leaf("span", {"[data-component-variant-finish-type-display]"}, block.finish),
             Leaf("span", {"[data-component-variant-link]"}, block.link) >>)

FaceEl(face) ==
    IF face = "none" THEN <<>>
    ELSE <<El("div", {".card-details__face"}, Undefined, "",
              <<El("img", {}, IF face = "nosrc" THEN Undefined ELSE Str(face), "", <<>>)>>)>>

ProductionEl(production) ==
    IF ~production.present THEN <<>>
    ELSE <<El("div", {".card-details__production-details-wrapper"}, Undefined, "",
              << Leaf("p", {}, production.info),
                 El("p", {}, Undefined, "Illustrated by ",
                    <<Leaf("a", {}, production.artist)>>) >>)>>

HtmlTree(page) ==
    El("body", {}, Undefined, "",
       FaceEl(page.face)
       \o <<El("div", {".card-details__variants"}, Undefined, "",
               [i \in DOMAIN page.variants |-> VariantEl(page.variants[i])])>>
       \o (IF ~page.rules.present THEN <<>> ELSE <<TabEl("rules", page.rules)>>)
       \o (IF ~page.print.present THEN <<>> ELSE <<TabEl("print", page.print)>>)
       \o ProductionEl(page.production))

\* a region that is not in the markup
NoTab ==
    [present |-> FALSE, labels |-> <<"", "", "", "">>, title |-> "", blurb |-> "",
     typebox |-> "", pitch |-> "", cost |-> "", power |-> "", defense |-> ""]
NoProduction == [present |-> FALSE, info |-> "", artist |-> ""]

\* response.data of a page request: the HTML text
Html(page) == [html |-> page]

\* lines 336-458: contentLength: response.data.length, cheerio.load, the rules
DetailBody(data, a) ==
    IF IsNullish(data) THEN Throw(ReadOfNullish(data, "length"))
    ELSE Return(CardDetail(Load(HtmlTree(data.html)), a))

-----------------------------------------------------------------------------
(* The tool handlers *)

\* The message literals of the three catch blocks are Japanese; the model
\* writes them in ASCII:
\*   search_fab_cards     エラー: カードの検索中に問題が発生しました -
\*   get_fab_card_prints  エラー: カードプリント情報の取得中に問題が発生しました -
\*   get_card_detail      エラー: カード詳細情報の取得中に問題が発生しました -
ErrorPrefix(t) ==
    IF t = SearchTool THEN "Error: card search failed - "
    ELSE IF t = PrintsTool THEN "Error: card print lookup failed - "
    ELSE "Error: card detail lookup failed - "

\* error instanceof Error ? error.message : 'Unknown error occurred'
ErrorMessage(e) == IF e.isError THEN e.message ELSE "Unknown error occurred"

\* { content: [{ type: "text", text }] }
Envelope(text) == [content |-> <<[type |-> "text", text |-> text]>>]

NoResponse == [content |-> <<>>]

\* the try block after `await axios.get(url)`: the local value the handler
\* builds (cards, prints, cardDetail), or the error some step throws
AfterGet(t, a, got) ==
    IF got.threw THEN got
    ELSE IF t = SearchTool THEN NormalizeSearch(got.value.data)
    ELSE IF t = PrintsTool THEN NormalizePrints(got.value.data)
    ELSE DetailBody(got.value.data, a)

TryBody(t, a, reply) == AfterGet(t, a, AxiosGet(reply))

\* faulty variant: the catch block marks its response as an error
HandlerReturnFlagged(t, outcome) ==
    IF outcome.threw
    THEN [content |-> <<[type |-> "text",
                         text |-> ErrorPrefix(t) \o ErrorMessage(outcome.error)]>>,
          isError |-> TRUE]
    ELSE Envelope(JSONstringify(outcome.value))

\* what the handler returns: the success envelope, or the one of the catch block
HandlerReturn(t, outcome) ==
    IF outcome.threw
    THEN Envelope(ErrorPrefix(t) \o ErrorMessage(outcome.error))
    ELSE Envelope(JSONstringify(outcome.value))

\* logger.info calls before the await: *_start and the request entry
EntriesBeforeAwait == 2

\* logger calls after the await (level 'info': logger.debug writes nothing)
EntriesAfterAwait(t, reply, outcome) ==
    IF reply.kind # "ok"
    THEN IF t = DetailTool THEN 2
         ELSE IF outcome.error.hasResponse THEN 2 ELSE 1
    ELSE IF IsNullish(reply.data)
         THEN IF t = DetailTool THEN 2 ELSE 1
    ELSE IF t = DetailTool THEN 2
    ELSE IF outcome.threw THEN 2 ELSE 1

-----------------------------------------------------------------------------
(* The router: export default { fetch(request, env, ctx) } *)

\* new Response(body, { status, headers }): a string body without a
\* content-type header is given the one of plain text
HttpResponse(body, status, headers) ==
    [kind |-> "response", status |-> status,
     headers |-> IF IsStr(body) /\ ~(\E h \in headers : h[1] = "content-type")
                 THEN headers \cup { <<"content-type", "text/plain;charset=UTF-8">> }
                 ELSE headers,
     body |-> body]

\* MyMCP.serveSSE(mount) / MyMCP.serve(mount): the request is handed to a
\* transport handler of the agent class, which exposes the tools init() registers
Dispatch(handler, mount) ==
    [kind |-> "dispatch", handler |-> handler, mount |-> mount, tools |-> Tools]

DiscoveryPath == "/.well-known/mcp.json"

Manifest(origin) ==
    Obj(<< <<"name", Str("Flesh and Blood Card Search API")>>,
           <<"version", Str("1.0.0")>>,
           <<"description",
             Str("A Model Context Protocol server that provides card search, print variation listings, and detailed information for the Flesh and Blood Trading Card Game database.")>>,
           <<"endpoints",
             Obj(<< <<"sse", Obj(<< <<"url", Str(origin \o "/sse")>> >>)>>,
                    <<"rpc", Obj(<< <<"url", Str(origin \o "/mcp")>> >>)>> >>)>> >>)

ManifestHeaders ==
    { <<"content-type", "application/json; charset=utf-8">>,
      <<"cache-control", "public, max-age=300">> }

\* faulty variant: the discovery document is served on GET only
FetchGetOnly(request) ==
    IF request.pathname = DiscoveryPath
    THEN IF request.method # "GET"
         THEN HttpResponse(Null, 405, { <<"Allow", "GET">> })
         ELSE HttpResponse(Str(JSONstringify(Manifest(request.origin))), 200,
                           ManifestHeaders)
    ELSE IF request.pathname = "/sse" \/ request.pathname = "/sse/message"
         THEN Dispatch("serveSSE", "/sse")
    ELSE IF request.pathname = "/mcp" THEN Dispatch("serve", "/mcp")
    ELSE HttpResponse(Str("Not found"), 404, {})

\* faulty variant: /mcp is served by the streaming handler as well
FetchAllStreaming(request) ==
    IF request.pathname = DiscoveryPath
    THEN IF request.method # "GET" /\ request.method # "HEAD"
         THEN HttpResponse(Null, 405, { <<"Allow", "GET, HEAD">> })
         ELSE HttpResponse(IF request.method = "HEAD" THEN Null
                           ELSE Str(JSONstringify(Manifest(request.origin))),
                           200, ManifestHeaders)
    ELSE IF request.pathname \in {"/sse", "/sse/message", "/mcp"}
         THEN Dispatch("serveSSE", "/sse")
    ELSE HttpResponse(Str("Not found"), 404, {})

\* faulty variant: the transports are matched by prefix, and a method the
\* transport mounts do not take is refused
FetchByPrefix(request) ==
    IF request.pathname = DiscoveryPath
    THEN IF request.method # "GET" /\ request.method # "HEAD"
         THEN HttpResponse(Null, 405, { <<"Allow", "GET, HEAD">> })
         ELSE HttpResponse(IF request.method = "HEAD" THEN Null
                           ELSE Str(JSONstringify(Manifest(request.origin))),
                           200, ManifestHeaders)
    ELSE IF Len(request.pathname) >= 4 /\ SubSeq(request.pathname, 1, 4) = "/sse"
         THEN Dispatch("serveSSE", "/sse")
    ELSE IF Len(request.pathname) >= 4 /\ SubSeq(request.pathname, 1, 4) = "/mcp"
         THEN IF request.method \notin {"GET", "POST", "DELETE"}
              THEN HttpResponse(Null, 405, { <<"Allow", "GET, POST, DELETE">> })
              ELSE Dispatch("serve", "/mcp")
    ELSE HttpResponse(Str("Not found"), 404, {})

\* fetch(request, env, ctx), on url = new URL(request.url)
Fetch(request) ==
    IF request.pathname = DiscoveryPath
    THEN IF request.method # "GET" /\ request.method # "HEAD"
         THEN HttpResponse(Null, 405, { <<"Allow", "GET, HEAD">> })
         ELSE HttpResponse(IF request.method = "HEAD" THEN Null
                           ELSE Str(JSONstringify(Manifest(request.origin))),
                           200, ManifestHeaders)
    ELSE IF request.pathname = "/sse" \/ request.pathname = "/sse/message"
         THEN Dispatch("serveSSE", "/sse")
    ELSE IF request.pathname = "/mcp" THEN Dispatch("serve", "/mcp")
    ELSE HttpResponse(Str("Not found"), 404, {})

NoExchange == [request |-> Null, reply |-> Null]

-----------------------------------------------------------------------------
(* State machine: the calls in flight *)

NoArgs == Obj(<<>>)

Init ==
    /\ pc = [c \in Calls |-> "idle"]
    /\ tool = [c \in Calls |-> "none"]
    /\ args = [c \in Calls |-> NoArgs]
    /\ requests = [c \in Calls |-> <<>>]
    /\ net = [c \in Calls |-> NoReply]
    /\ result = [c \in Calls |-> Undefined]
    /\ response = [c \in Calls |-> NoResponse]
    /\ logged = 0
    /\ routed = NoExchange

\* The SDK refuses arguments the tool's schema does not accept; the handler
\* is not run.
RejectCall(c, t, a) ==
    /\ pc[c] = "idle"
    /\ ~SchemaAccepts(t, a)
    /\ pc' = [pc EXCEPT ![c] = "invalid"]
    /\ tool' = [tool EXCEPT ![c] = t]
    /\ args' = [args EXCEPT ![c] = a]
    /\ UNCHANGED <<requests, net, result, response, logged, routed>>

\* The handler runs up to its await: it logs, builds the URL and calls axios.get.
CallTool(c, t, a) ==
    /\ pc[c] = "idle"
    /\ SchemaAccepts(t, a)
    /\ pc' = [pc EXCEPT ![c] = "awaiting"]
    /\ tool' = [tool EXCEPT ![c] = t]
    /\ args' = [args EXCEPT ![c] = a]
    /\ requests' = [requests EXCEPT ![c] = Append(@, RequestUrl(t, a))]
    /\ logged' = logged + EntriesBeforeAwait
    /\ UNCHANGED <<net, result, response, routed>>

\* The origin answers the pending request, fails it, or stays silent for ever:
\* one of the replies it can give to this request.
Upstream(c, replies) ==
    /\ pc[c] = "awaiting"
    /\ net[c] = NoReply
    /\ \E reply \in replies : net' = [net EXCEPT ![c] = reply]
    /\ UNCHANGED <<pc, tool, args, requests, result, response, logged, routed>>

-----------------------------------------------------------------------------
(* Faulty variants of the handler's last step, against which the properties
   are tested *)

\* the catch block rethrows: the error escapes the handler
FinishRethrow(c, outcome) ==
    /\ result' = [result EXCEPT ![c] =
                     IF outcome.threw THEN Undefined ELSE outcome.value]
    /\ response' = [response EXCEPT ![c] =
                       IF outcome.threw THEN NoResponse
                       ELSE HandlerReturn(tool[c], outcome)]
    /\ logged' = logged + EntriesAfterAwait(tool[c], net[c], outcome)
    /\ pc' = [pc EXCEPT ![c] = IF outcome.threw THEN "rejected" ELSE "returned"]
    /\ UNCHANGED <<tool, args, requests, net, routed>>

\* a failed request is sent once more
FinishRetry(c, outcome) ==
    IF net[c].kind # "ok" /\ Len(requests[c]) < 2
    THEN /\ requests' = [requests EXCEPT ![c] = Append(@, RequestUrl(tool[c], args[c]))]
         /\ net' = [net EXCEPT ![c] = NoReply]
         /\ logged' = logged + 1
         /\ UNCHANGED <<pc, tool, args, result, response, routed>>
    ELSE /\ result' = [result EXCEPT ![c] =
                          IF outcome.threw THEN Undefined ELSE outcome.value]
         /\ response' = [response EXCEPT ![c] = HandlerReturn(tool[c], outcome)]
         /\ logged' = logged + EntriesAfterAwait(tool[c], net[c], outcome)
         /\ pc' = [pc EXCEPT ![c] = "returned"]
         /\ UNCHANGED <<tool, args, requests, net, routed>>

\* the list is kept in one module-level array that every call appends to
SharedList(c, outcome) ==
    IF outcome.threw \/ ~IsArr(outcome.value) THEN outcome
    ELSE Return(Arr(
            JoinLists([d \in Calls |->
                          IF d # c /\ tool[d] = tool[c] /\ IsArr(result[d])
                          THEN result[d].arr ELSE <<>>])
            \o outcome.value.arr))

FinishShared(c, outcome) ==
    /\ result' = [result EXCEPT ![c] =
                     IF outcome.threw THEN Undefined ELSE SharedList(c, outcome).value]
    /\ response' = [response EXCEPT ![c] =
                       HandlerReturn(tool[c], SharedList(c, outcome))]
    /\ logged' = logged + EntriesAfterAwait(tool[c], net[c], outcome)
    /\ pc' = [pc EXCEPT ![c] = "returned"]
    /\ UNCHANGED <<tool, args, requests, net, routed>>

\* the handler ends: try block completed or catch block ran; it returns
Finish(c, outcome) ==
    /\ result' = [result EXCEPT ![c] =
                     IF outcome.threw THEN Undefined ELSE outcome.value]
    /\ response' = [response EXCEPT ![c] = HandlerReturn(tool[c], outcome)]
    /\ logged' = logged + EntriesAfterAwait(tool[c], net[c], outcome)
    /\ pc' = [pc EXCEPT ![c] = "returned"]
    /\ UNCHANGED <<tool, args, requests, net, routed>>

\* The promise of axios.get settles and the handler runs to its return.
Resume(c) ==
    /\ pc[c] = "awaiting"
    /\ Settled(net[c])
    /\ Finish(c, TryBody(tool[c], args[c], net[c]))

\* The worker answers one HTTP request; it keeps nothing between requests.
Route(request) ==
    /\ routed' = [request |-> request, reply |-> Fetch(request)]
    /\ UNCHANGED <<pc, tool, args, requests, net, result, response, logged>>

-----------------------------------------------------------------------------
(* Inputs: arguments the client sends and bodies the origin serves *)

SeqsUpTo(S, n) == UNION {[1 .. k -> S] : k \in 0 .. n}

\* an object without one of its keys
Without(o, k) == Obj(SelectSeq(o.obj, LAMBDA pair : pair[1] # k))

SearchArgs(q) == Obj(<< <<"query", q>> >>)
PrintsArgs(id) == Obj(<< <<"cardId", id>> >>)
DetailArgs(id, printId) ==
    IF IsUndefined(printId) THEN Obj(<< <<"cardId", id>> >>)
    ELSE Obj(<< <<"cardId", id>>, <<"printId", printId>> >>)

\* an entry of the search endpoint with every field the handler reads
FullCard(id) ==
    Obj(<< <<"card_id", Str(id)>>,
           <<"name", Str("Enlightened Strike")>>,
           <<"display_name", Str("Enlightened Strike (" \o id \o ")")>>,
           <<"url", Str("/card/" \o id \o "/")>>,
           <<"image", Obj(<< <<"small", Str("https://img/s/" \o id \o ".png")>>,
                            <<"normal", Str("https://img/n/" \o id \o ".png")>>,
                            <<"large", Str("https://img/l/" \o id \o ".png")>> >>)>>,
           <<"pitch", Str("1")>>,
           <<"cost", Str("0")>>,
           <<"power", Str("5")>>,
           <<"defense", Str("3")>>,
           <<"text", Str("Choose 1;")>>,
           <<"text_html", Str("<p>Choose 1;</p>")>>,
           <<"typebox", Str("Generic Action")>> >>)

SearchOptionalKeys ==
    {"pitch", "cost", "power", "defense", "text", "text_html", "typebox"}
SearchRequiredKeys == {"card_id", "name", "display_name", "url", "image"}

\* an entry of the prints endpoint with every field the handler reads
FullPrint(id) ==
    Obj(<< <<"print_id", Str(id)>>,
           <<"card_id", Str("WTR159")>>,
           <<"name", Str("Enlightened Strike")>>,
           <<"display_name", Str("Enlightened Strike (" \o id \o ")")>>,
           <<"pitch", Str("1")>>,
           <<"image", Obj(<< <<"small", Str("https://img/s/" \o id \o ".png")>>,
                            <<"normal", Str("https://img/n/" \o id \o ".png")>>,
                            <<"large", Str("https://img/l/" \o id \o ".png")>> >>)>>,
           <<"layout", Obj(<< <<"key", Str("standard")>>,
                             <<"label", Str("Standard")>> >>)>>,
           <<"finish_types",
             Arr(<< Obj(<< <<"key", Str("regular")>>, <<"label", Str("Regular")>> >>),
                    Obj(<< <<"key", Str("rainbow_foil")>>,
                           <<"label", Str("Rainbow Foil")>>,
                           <<"note", Null>> >>) >>)>> >>)

PrintsOptionalKeys == {"pitch"}
PrintsRequiredKeys ==
    {"print_id", "card_id", "name", "display_name", "image", "layout", "finish_types"}

\* an entry whose field k is value v instead
With(o, k, v) ==
    Obj([i \in DOMAIN o.obj |-> IF o.obj[i][1] = k THEN <<k, v>> ELSE o.obj[i]])

\* entries of the search endpoint: whole, with one field missing, and with a
\* url that is no string (an object that cannot be converted to one)
SearchEntries ==
    {FullCard("WTR159"), FullCard("ARC002")}
    \cup {Without(FullCard("WTR159"), k) : k \in SearchOptionalKeys \cup SearchRequiredKeys}
    \cup {With(FullCard("WTR159"), "url", Obj(<< <<"toString", Str("x")>> >>))}

\* entries of the prints endpoint: whole, with one field missing, and with
\* an image that is a string
PrintsEntries ==
    {FullPrint("WTR159"), FullPrint("JA_WTR159")}
    \cup {Without(FullPrint("WTR159"), k) : k \in PrintsOptionalKeys \cup PrintsRequiredKeys}
    \cup {With(FullPrint("WTR159"), "image", Str("x"))}

ResultsBody(entries) == Body(Obj(<< <<"count", Str("n")>>, <<"results", Arr(entries)>> >>))

\* 2xx bodies that carry no results array
MalformedBodies ==
    { Body(Null),
      Body(Str("<html>Bad Gateway</html>")),
      Body(Obj(<< <<"detail", Str("Not found.")>> >>)),
      Body(Obj(<< <<"results", Null>> >>)),
      Body(Obj(<< <<"results", Str("none")>> >>)) }

Failures == {NetworkFailure, HttpStatus(404), HttpStatus(500)}

EnglishLabels == <<"Pitch", "Cost", "Power", "Defense">>
JapaneseLabels == <<PitchLabel \o " ", "Kosuto", PowerLabel, DefenseLabel>>

EnglishTab ==
    [present |-> TRUE, labels |-> EnglishLabels, title |-> " Enlightened Strike\r\n",
     blurb |-> "Choose 1;\r\nDraw a card.", typebox |-> "Generic Action",
     pitch |-> "1", cost |-> "0", power |-> "5", defense |-> "3"]

JapaneseTab ==
    [present |-> TRUE, labels |-> JapaneseLabels, title |-> "Satori no Ichigeki",
     blurb |-> "Hitotsu erabu;", typebox |-> "Hanyou Akushon",
     pitch |-> "1", cost |-> "0", power |-> "5", defense |-> "3"]

RathePrinting == [present |-> TRUE, info |-> "Welcome to Rathe | Rare", artist |-> "Jane Roe"]

\* the variant blocks a page may show
VariantBlocks ==
    [current : BOOLEAN,
     printId : {"", "WTR159", "JA_WTR159"},
     name : {"Welcome to Rathe"},
     finish : {"Regular"},
     link : {"", "/card/enlightened-strike/"}]

Page(face, variants, rules, print, production) ==
    [face |-> face, variants |-> variants, rules |-> rules, print |-> print,
     production |-> production]

EmptyPage == Page("none", <<>>, NoTab, NoTab, NoProduction)

\* pages of the site: every variant selector of up to MaxVariants blocks on a
\* full page, and the full page with some of its regions missing
MaxVariants == 2

\* print identifiers around the language prefix /^([A-Z]{2})_/
PrefixedPrintIds ==
    {"JA_WTR001", "WTR001", "ja_WTR001", "Ja_WTR001", "J_WTR001", "JAP_WTR001",
     "JA-WTR001", " JA_WTR001", "1A_WTR001", "JA_", "FR_WTR001"}

\* single variant blocks with any of their four texts empty, and blocks whose
\* print identifier may carry a language prefix
SingleBlocks ==
    [current : {FALSE},
     printId : {"", "WTR159"},
     name : {"", "Welcome to Rathe"},
     finish : {"", "Regular"},
     link : {"", "/card/enlightened-strike/"}]
    \cup [current : {FALSE},
          printId : PrefixedPrintIds,
          name : {"Welcome to Rathe"},
          finish : {"Regular"},
          link : {"/card/enlightened-strike/"}]

\* first paragraphs of the production details
PublicationTexts ==
    {"Welcome to Rathe | Rare", "Welcome to Rathe", "  Promo \n", "A | B | C",
     "", " | Rare", "Welcome to Rathe|"}

Pages ==
    {Page("https://img/n/WTR159.png", v, EnglishTab, JapaneseTab, RathePrinting) :
        v \in SeqsUpTo(VariantBlocks, MaxVariants)}
    \cup {Page("https://img/n/WTR159.png", <<b>>, EnglishTab, JapaneseTab, RathePrinting) :
            b \in SingleBlocks}
    \cup {Page("https://img/n/WTR159.png", <<>>, EnglishTab, JapaneseTab,
                [present |-> TRUE, info |-> t, artist |-> "Jane Roe"]) :
            t \in PublicationTexts}
    \cup {Page(f, <<>>, r, p, d) :
            f \in {"none", "nosrc"}, r \in {NoTab, EnglishTab},
            p \in {NoTab, JapaneseTab}, d \in {NoProduction, RathePrinting}}

\* arguments the schemas refuse: the required identifier missing or no string
BadArgs(t) ==
    IF t = SearchTool THEN {NoArgs}
    ELSE IF t = PrintsTool THEN {PrintsArgs(Null)}
    ELSE {DetailArgs(Str("WTR159"), Null)}

\* the inputs of the concurrent specification
FewArgs(t) ==
    IF t = SearchTool THEN {SearchArgs(Str("")), SearchArgs(Str("strike"))}
    ELSE IF t = PrintsTool THEN {PrintsArgs(Str("WTR159"))}
    ELSE {DetailArgs(Str("WTR159"), Undefined),
          DetailArgs(Str("WTR159"), Str("JA_WTR159"))}

ActivePage ==
    Page("https://img/n/WTR159.png",
         << [current |-> TRUE, printId |-> "WTR159", name |-> "Welcome to Rathe",
             finish |-> "Regular", link |-> "/card/enlightened-strike/"] >>,
         EnglishTab, JapaneseTab, RathePrinting)

FewReplies(t) ==
    IF t = SearchTool
    THEN {Silent, NetworkFailure, ResultsBody(<<FullCard("WTR159")>>),
          Body(Obj(<< <<"detail", Str("Not found.")>> >>))}
    ELSE IF t = PrintsTool
    THEN {Silent, HttpStatus(404), ResultsBody(<<FullPrint("WTR159")>>), Body(Null)}
    ELSE IF t = DetailTool
    THEN {Silent, NetworkFailure, HttpStatus(404), Body(Html(ActivePage)), Body(Null)}
    ELSE {}

\* the inputs of the one-call specification
AllArgs(t) ==
    IF t = SearchTool THEN {SearchArgs(Str(q)) : q \in {"", "strike", "a b/c?d"}}
    ELSE IF t = PrintsTool THEN {PrintsArgs(Str(id)) : id \in {"", "WTR159"}}
    ELSE {DetailArgs(Str(id), p) :
            id \in {"", "WTR159"},
            p \in {Undefined, Str(""), Str("WTR159"), Str("RF_WTR159")}}

AllReplies(t) ==
    IF t = SearchTool
    THEN Failures \cup MalformedBodies
         \cup {ResultsBody(e) : e \in SeqsUpTo(SearchEntries \cup {Null}, MaxResults)}
    ELSE IF t = PrintsTool
    THEN Failures \cup MalformedBodies
         \cup {ResultsBody(e) : e \in SeqsUpTo(PrintsEntries \cup {Null}, MaxResults)}
    ELSE IF t = DetailTool
    THEN Failures \cup {Body(Null)} \cup {Body(Html(p)) : p \in Pages}
    ELSE {}

-----------------------------------------------------------------------------
(* Specifications *)

\* several calls in flight, interleaved in every order
Next ==
    \E c \in Calls :
        \/ \E t \in Tools : \E a \in BadArgs(t) : RejectCall(c, t, a)
        \/ \E t \in Tools : \E a \in FewArgs(t) : CallTool(c, t, a)
        \/ Upstream(c, FewReplies(tool[c]))
        \/ Resume(c)

Spec == Init /\ [][Next]_vars

\* ENABLED <<Resume(c)>>_vars: the awaited promise has settled
ResumeEnabled(c) == pc[c] = "awaiting" /\ Settled(net[c])

\* The event loop runs a handler whose awaited promise has settled, and the
\* origin does decide what becomes of a request (staying silent is one of
\* its choices); nothing makes the origin answer.
\* The first conjunct is WF_vars(Resume(c)) written out with the enabling
\* condition of Resume(c) in place of ENABLED.
Fairness ==
    \A c \in Calls :
        /\ <>[]ResumeEnabled(c) => []<><<Resume(c)>>_vars
        /\ WF_vars(Upstream(c, FewReplies(tool[c])))

FairSpec == Spec /\ Fairness

\* one call, over every argument and every body of the input sets
OneCallNext ==
    \/ \E t \in Tools : \E a \in AllArgs(t) : CallTool(1, t, a)
    \/ Upstream(1, AllReplies(tool[1]))
    \/ Resume(1)

OneCallSpec == Init /\ [][OneCallNext]_vars

\* identifiers with the characters a URL gives a meaning to
AwkwardIds ==
    {"WTR159", "a/b", "a?b", "a#b", "a&b=c", "..", ".", "a b", "100%", "../search",
     "it's", "a\nb"}

\* the inputs of the request specification: every identifier, few replies
UrlArgs(t) ==
    IF t = SearchTool THEN {SearchArgs(Str(q)) : q \in AwkwardIds \cup {""}}
    ELSE IF t = PrintsTool THEN {PrintsArgs(Str(id)) : id \in AwkwardIds \cup {""}}
    ELSE {DetailArgs(Str(id), p) :
            id \in AwkwardIds,
            p \in {Undefined, Str("")} \cup {Str(x) : x \in AwkwardIds \cup {"RF_WTR159"}}}

UrlReplies(t) ==
    IF t = DetailTool
    THEN {HttpStatus(404), NetworkFailure, Body(Html(ActivePage)), Body(Html(EmptyPage))}
    ELSE IF t = SearchTool
    THEN {HttpStatus(404), NetworkFailure, Body(Null),
          ResultsBody(<<FullCard("WTR159")>>), ResultsBody(<<FullCard("WTR159"), Null>>)}
    ELSE IF t = PrintsTool
    THEN {HttpStatus(404), NetworkFailure, Body(Null),
          ResultsBody(<<FullPrint("WTR159")>>), ResultsBody(<<FullPrint("WTR159"), Null>>)}
    ELSE {}

\* one call, over every identifier: the request the handler sends
RequestNext ==
    \/ \E t \in Tools : \E a \in BadArgs(t) : RejectCall(1, t, a)
    \/ \E t \in Tools : \E a \in UrlArgs(t) : CallTool(1, t, a)
    \/ Upstream(1, UrlReplies(tool[1]))
    \/ Resume(1)

RequestSpec == Init /\ [][RequestNext]_vars

\* one get_card_detail call answered with a page: every page of the site
PageNext ==
    \/ \E a \in FewArgs(DetailTool) : CallTool(1, DetailTool, a)
    \/ Upstream(1, {Body(Html(p)) : p \in Pages})
    \/ Resume(1)

PageSpec == Init /\ [][PageNext]_vars

\* the HTTP requests the host hands to the worker: url.pathname and url.origin
\* as new URL(request.url) gives them, and the request method
Methods == {"GET", "HEAD", "POST", "PUT", "DELETE", "OPTIONS", "PATCH"}

Pathnames ==
    {"/.well-known/mcp.json", "/sse", "/sse/message", "/mcp",
     "/", "/sse/", "/mcp/", "/MCP", "/SSE", "/.well-known/mcp.json/",
     "/.well-known", "/sse/messages", "/mcp.json", "/sse/message/1",
     "/card/WTR159/", "/sse/other"}

Origins == {"https://fab-card-db-mcp.example.workers.dev", "http://localhost:8787"}

HttpRequests == [method : Methods, pathname : Pathnames, origin : Origins]

\* the router alone, over every request of the input sets
RouterNext == \E request \in HttpRequests : Route(request)

RouterSpec == Init /\ [][RouterNext]_vars

-----------------------------------------------------------------------------
(* Vocabulary of the properties *)

StartsWith(s, prefix) ==
    Len(s) >= Len(prefix) /\ SubSeq(s, 1, Len(prefix)) = prefix

\* the text of the single content item of a response
TextOf(r) == r.content[1].text

Returned(c) == pc[c] = "returned"

\* the origin served a list payload: an object with a results array
ListPayload(c) ==
    /\ tool[c] \in {SearchTool, PrintsTool}
    /\ net[c].kind = "ok"
    /\ IsObj(net[c].data)
    /\ IsArr(Get(net[c].data, "results"))

EntriesOf(c) == Get(net[c].data, "results").arr

\* every entry is an object
ObjectEntries(c) == \A i \in DOMAIN EntriesOf(c) : IsObj(EntriesOf(c)[i])

\* every entry is an object that carries its image object, and its url, if
\* it has one, is a string
ValidEntries(c) ==
    \A i \in DOMAIN EntriesOf(c) :
        /\ IsObj(EntriesOf(c)[i])
        /\ IsObj(Get(EntriesOf(c)[i], "image"))
        /\ IsStr(Get(EntriesOf(c)[i], "url")) \/ IsUndefined(Get(EntriesOf(c)[i], "url"))

\* the response carries the serialized array of one record per entry
ListSuccess(c) ==
    /\ IsArr(result[c])
    /\ Len(result[c].arr) = Len(EntriesOf(c))
    /\ response[c] = Envelope(JSONstringify(result[c]))

\* the required identifier of the call is the empty string
EmptyIdentifier(c) ==
    \/ tool[c] = SearchTool /\ Get(args[c], "query") = Str("")
    \/ tool[c] \in {PrintsTool, DetailTool} /\ Get(args[c], "cardId") = Str("")

\* record field that carries each optional entry field of the search endpoint
OutKey(k) == IF k = "text_html" THEN "textHtml" ELSE k

\* the fields a search record copies from its entry
SearchCopied ==
    { <<"card_id", "id">>, <<"name", "name">>, <<"display_name", "displayName">> }
    \cup { <<k, OutKey(k)>> : k \in SearchOptionalKeys }

\* the fields a print record copies from its entry
PrintsCopied ==
    { <<"print_id", "printId">>, <<"card_id", "cardId">>, <<"name", "name">>,
      <<"display_name", "displayName">>, <<"pitch", "pitch">>,
      <<"layout", "layout">>, <<"finish_types", "finishTypes">> }

OptionalOf(t) == IF t = SearchTool THEN SearchOptionalKeys ELSE PrintsOptionalKeys
CopiedOf(t) == IF t = SearchTool THEN SearchCopied ELSE PrintsCopied

\* the page the origin served to a detail call
DetailPage(c) ==
    /\ tool[c] = DetailTool
    /\ net[c].kind = "ok"
    /\ ~IsNullish(net[c].data)

PageOf(c) == net[c].data.html

\* the variant blocks of a page that carry the active-variant marker
ActiveBlocks(page) == {i \in DOMAIN page.variants : page.variants[i].current}

-----------------------------------------------------------------------------
(* Properties *)

\* C1: an error raised inside a handler (network failure, non-success status,
\* a body that cannot be processed) never escapes the call: the call returns
\* a response whose text is the tool's error prefix followed by the message
\* of the error.
C1_ErrorsAnsweredInBand ==
    \A c \in Calls :
        /\ pc[c] # "rejected"
        /\ (Returned(c) /\ net[c].kind = "network")
             => response[c] = Envelope(ErrorPrefix(tool[c]) \o "Network Error")
        /\ (Returned(c) /\ net[c].kind = "status")
             => response[c] =
                  Envelope(ErrorPrefix(tool[c]) \o "Request failed with status code "
                           \o ToString(net[c].status))
        /\ (Returned(c) /\ net[c].kind = "ok" /\ IsNullish(net[c].data))
             => /\ StartsWith(TextOf(response[c]),
                              ErrorPrefix(tool[c]) \o "Cannot read properties of ")
                /\ result[c] = Undefined
        /\ (Returned(c) /\ tool[c] \in {SearchTool, PrintsTool}
              /\ net[c].kind = "ok" /\ ~ListPayload(c))
             => /\ StartsWith(TextOf(response[c]), ErrorPrefix(tool[c]))
                /\ Len(TextOf(response[c])) > Len(ErrorPrefix(tool[c]))
                /\ result[c] = Undefined

C1_Witness ==
    \E c \in Calls :
        /\ Returned(c)
        /\ tool[c] = PrintsTool
        /\ net[c] = Body(Obj(<< <<"results", Str("none")>> >>))
        /\ TextOf(response[c]) = ErrorPrefix(PrintsTool) \o "data.results.map is not a function"

\* C2 (as the specification states it): a call whose required identifier is
\* the empty string is refused before any request goes to the origin.
C2_EmptyIdentifierSendsNothing ==
    \A c \in Calls : EmptyIdentifier(c) => requests[c] = <<>>

\* C3 (as the specification states it): every call that has started
\* eventually completes, whatever the origin does, an origin that never
\* answers included.  The handlers await axios.get(url) with no timeout, signal
\* or race, so under fair scheduling a call whose request stays unanswered
\* stays awaiting for ever.
C3_EveryCallCompletes ==
    \A c \in Calls : (pc[c] = "awaiting") ~> Returned(c)

\* C4: a call sends at most one request to the origin, exactly one once its
\* handler runs, and a failed request is not sent again.
C4_OneRequestPerCall ==
    \A c \in Calls :
        /\ Len(requests[c]) <= 1
        /\ pc[c] \in {"awaiting", "returned"}
             => requests[c] = <<RequestUrl(tool[c], args[c])>>
        /\ pc[c] \in {"idle", "invalid"} => requests[c] = <<>>

C4_Witness ==
    \E c \in Calls :
        /\ Returned(c)
        /\ tool[c] = DetailTool
        /\ net[c] = NetworkFailure
        /\ Len(requests[c]) = 1

\* the state one call owns
Own(c) == <<pc[c], tool[c], args[c], requests[c], net[c], result[c], response[c]>>

\* a returned call answered what it answers when it runs alone
SoloResponses ==
    \A c \in Calls :
        Returned(c) =>
            /\ response[c] = HandlerReturn(tool[c], TryBody(tool[c], args[c], net[c]))
            /\ requests[c] = <<RequestUrl(tool[c], args[c])>>

\* a step of one call leaves the state of every other call alone
OneCallPerStep ==
    \A c, d \in Calls : (c # d /\ Own(c)' # Own(c)) => Own(d)' = Own(d)

\* C5: calls in flight together do not interact: each returns the response
\* it returns when run alone, and no step of a call changes what another
\* call holds.
C5_CallsDoNotInteract == []SoloResponses /\ [][OneCallPerStep]_vars

C5_Witness ==
    \E c, d \in Calls :
        /\ c # d
        /\ tool[c] = SearchTool /\ tool[d] = SearchTool
        /\ Returned(c) /\ Returned(d)
        /\ IsArr(result[c]) /\ IsArr(result[d])

\* C6: for a valid search payload of N entries the call returns N records in
\* the order of the entries; record i has the primary image URL of entry i
\* (image.normal) and the fixed origin followed by the relative url of entry i.
C6_SearchRecords ==
    \A c \in Calls :
        (Returned(c) /\ tool[c] = SearchTool /\ ListPayload(c) /\ ValidEntries(c))
        => /\ ListSuccess(c)
           /\ \A i \in DOMAIN EntriesOf(c) :
                LET entry == EntriesOf(c)[i]
                    rec == result[c].arr[i]
                IN /\ Get(rec, "id") = Get(entry, "card_id")
                   /\ Get(rec, "imageUrl") = Get(Get(entry, "image"), "normal")
                   /\ IsStr(Get(entry, "url"))
                        => Get(rec, "cardUrl") = Str(Origin \o Get(entry, "url").str)

C6_Witness ==
    \E c \in Calls :
        /\ Returned(c)
        /\ net[c] = ResultsBody(<<FullCard("ARC002"), FullCard("WTR159")>>)
        /\ Get(result[c].arr[1], "cardUrl") = Str("https://cards.fabtcg.com/card/ARC002/")
        /\ Get(result[c].arr[2], "imageUrl") = Str("https://img/n/WTR159.png")

\* C7: for a valid prints payload the call returns one record per entry in
\* the order of the entries, and each record has the layout and the finish
\* types of its entry exactly as the origin gave them.
C7_PrintRecords ==
    \A c \in Calls :
        (Returned(c) /\ tool[c] = PrintsTool /\ ListPayload(c) /\ ValidEntries(c))
        => /\ ListSuccess(c)
           /\ \A i \in DOMAIN EntriesOf(c) :
                LET entry == EntriesOf(c)[i]
                    rec == result[c].arr[i]
                IN /\ Get(rec, "printId") = Get(entry, "print_id")
                   /\ Get(rec, "layout") = Get(entry, "layout")
                   /\ Get(rec, "finishTypes") = Get(entry, "finish_types")

C7_Witness ==
    \E c \in Calls :
        /\ Returned(c)
        /\ net[c] = ResultsBody(<<FullPrint("JA_WTR159"), FullPrint("WTR159")>>)
        /\ Get(result[c].arr[1], "printId") = Str("JA_WTR159")
        /\ Get(result[c].arr[2], "layout") =
             Obj(<< <<"key", Str("standard")>>, <<"label", Str("Standard")>> >>)
        /\ Len(Get(result[c].arr[2], "finishTypes").arr) = 2

\* C8: an entry that lacks an optional field raises no error: the call
\* succeeds, the record has that field absent, and every other field of
\* every record is the one its entry gave.
C8_MissingOptionalField ==
    \A c \in Calls :
        (Returned(c) /\ ListPayload(c) /\ ValidEntries(c))
        => /\ ListSuccess(c)
           /\ \A i \in DOMAIN EntriesOf(c) :
                LET entry == EntriesOf(c)[i]
                    rec == result[c].arr[i]
                IN /\ \A k \in OptionalOf(tool[c]) :
                        ~HasKey(entry, k)
                        => /\ IsUndefined(Get(rec, OutKey(k)))
                           /\ ~HasKey(Obj(DefinedPairs(rec.obj)), OutKey(k))
                   /\ \A f \in CopiedOf(tool[c]) :
                        HasKey(entry, f[1]) => Get(rec, f[2]) = Get(entry, f[1])

C8_Witness ==
    \E c \in Calls :
        /\ Returned(c)
        /\ net[c] = ResultsBody(<<Without(FullCard("WTR159"), "text"), FullCard("ARC002")>>)
        /\ ListSuccess(c)
        /\ IsUndefined(Get(result[c].arr[1], "text"))
        /\ Get(result[c].arr[2], "text") = Str("Choose 1;")

\* C9 (as the specification states it): an entry that lacks a non-optional
\* field (identifier, name, display name, url, or the image object) is
\* carried through with whatever placeholder results, and the call still
\* returns the successful payload with one record per entry.
C9_MissingRequiredCarried ==
    \A c \in Calls :
        (Returned(c) /\ tool[c] = SearchTool /\ ListPayload(c) /\ ObjectEntries(c))
        => ListSuccess(c)

\* the print identifier rule 1 prescribes for a page and a requested print
ExpectedPrintId(page, printId) ==
    LET active == ActiveBlocks(page)
        marked == IF active = {} THEN ""
                  ELSE page.variants[CHOOSE i \in active : TRUE].printId
    IN IF marked # "" THEN marked
       ELSE IF IsStr(printId) /\ printId.str # "" THEN printId.str
       ELSE ""

\* C10: the printId of a card detail is the print-identifier text of the
\* variant block that carries the active-variant marker when there is one;
\* else the printId the caller supplied when it is non-empty; else the empty
\* string (pages with at most one active block).
C10_PrintIdResolution ==
    \A c \in Calls :
        (Returned(c) /\ DetailPage(c) /\ Cardinality(ActiveBlocks(PageOf(c))) <= 1)
        => /\ IsObj(result[c])
           /\ Get(result[c], "printId") =
                Str(ExpectedPrintId(PageOf(c), Get(args[c], "printId")))

C10_Witness ==
    \E c \in Calls :
        /\ Returned(c) /\ DetailPage(c)
        /\ Get(args[c], "printId") = Str("RF_WTR159")
        /\ Len(PageOf(c).variants) = 2
        /\ ~PageOf(c).variants[1].current
        /\ PageOf(c).variants[1].printId = "WTR159"
        /\ PageOf(c).variants[2].current
        /\ PageOf(c).variants[2].printId = "JA_WTR159"
        /\ Get(result[c], "printId") = Str("JA_WTR159")

-----------------------------------------------------------------------------
(* Properties of the detail extractor *)

\* a detail call that returned the record extracted from the page served
DetailReturned(c) == Returned(c) /\ DetailPage(c) /\ IsObj(result[c])

VariantsIn(c) == Get(result[c], "variants").arr

\* the two-letter language prefixes of print identifiers
TwoLetters == {a \o b : a \in UpperCase, b \in UpperCase}

HasLanguagePrefix(id) ==
    Len(id) >= 3 /\ SubSeq(id, 1, 2) \in TwoLetters /\ SubSeq(id, 3, 3) = "_"

\* C11: the language code of a variant depends only on its print identifier:
\* the first two letters when the identifier starts with two uppercase
\* letters and an underscore ("JA_WTR001" gives "JA"), and "EN" for every
\* other identifier ("WTR001" gives "EN").
C11_LanguageFromPrintId ==
    \A c \in Calls :
        DetailReturned(c) =>
            \A i \in DOMAIN VariantsIn(c) :
                LET id == Get(VariantsIn(c)[i], "printId").str
                    language == Get(VariantsIn(c)[i], "language")
                IN /\ HasLanguagePrefix(id) => language = Str(SubSeq(id, 1, 2))
                   /\ ~HasLanguagePrefix(id) => language = Str("EN")
                   /\ id = "JA_WTR001" => language = Str("JA")
                   /\ id = "WTR001" => language = Str("EN")

C11_Witness ==
    \E c \in Calls :
        /\ DetailReturned(c)
        /\ Len(VariantsIn(c)) = 1
        /\ Get(VariantsIn(c)[1], "printId") = Str("ja_WTR001")
        /\ Get(VariantsIn(c)[1], "language") = Str("EN")

\* the inclusion rule of the variant list
Passes(block) == block.printId # "" /\ block.link # ""

\* the blocks of a page that pass the inclusion rule, in document order
Included(page) == SelectSeq(page.variants, Passes)

\* C12: a variant block is in the variants sequence if and only if both its
\* print-identifier text and its URL text are non-empty: a block with an
\* identifier and no URL text is left out, a block with both is included
\* even when its set name and finish-type label are empty.
C12_VariantInclusion ==
    \A c \in Calls :
        DetailReturned(c) =>
            LET blocks == PageOf(c).variants IN
            /\ Len(VariantsIn(c)) =
                 Cardinality({i \in DOMAIN blocks : Passes(blocks[i])})
            /\ \A i \in DOMAIN blocks :
                 Passes(blocks[i]) =>
                    \E j \in DOMAIN VariantsIn(c) :
                        /\ Get(VariantsIn(c)[j], "printId") = Str(blocks[i].printId)
                        /\ Get(VariantsIn(c)[j], "setName") = Str(blocks[i].name)
                        /\ Get(VariantsIn(c)[j], "finishType") = Str(blocks[i].finish)
            /\ (Len(blocks) = 1 /\ ~Passes(blocks[1])) => VariantsIn(c) = <<>>

C12_Witness ==
    \E c \in Calls :
        /\ DetailReturned(c)
        /\ Len(PageOf(c).variants) = 2
        /\ PageOf(c).variants[1].printId = "WTR159"
        /\ PageOf(c).variants[1].link = ""
        /\ Passes(PageOf(c).variants[2])
        /\ Len(VariantsIn(c)) = 1
        /\ Get(VariantsIn(c)[1], "printId") = Str(PageOf(c).variants[2].printId)

\* a page with one block whose set name and finish-type label are empty
C12_WitnessEmptyLabels ==
    \E c \in Calls :
        /\ DetailReturned(c)
        /\ Len(PageOf(c).variants) = 1
        /\ PageOf(c).variants[1].name = "" /\ PageOf(c).variants[1].finish = ""
        /\ Len(VariantsIn(c)) = 1

\* C13: the variants sequence is exactly the blocks of the page that pass the
\* inclusion rule, each once and in document order; each entry has its
\* block's print identifier, set name and finish-type label, and the fixed
\* origin followed by the block's URL text as its url.
C13_VariantsInDocumentOrder ==
    \A c \in Calls :
        DetailReturned(c) =>
            LET kept == Included(PageOf(c)) IN
            /\ Len(VariantsIn(c)) = Len(kept)
            /\ \A i \in DOMAIN kept :
                 /\ Get(VariantsIn(c)[i], "printId") = Str(kept[i].printId)
                 /\ Get(VariantsIn(c)[i], "setName") = Str(kept[i].name)
                 /\ Get(VariantsIn(c)[i], "finishType") = Str(kept[i].finish)
                 /\ Get(VariantsIn(c)[i], "url") = Str("https://cards.fabtcg.com" \o kept[i].link)

C13_Witness ==
    \E c \in Calls :
        /\ DetailReturned(c)
        /\ Len(PageOf(c).variants) = 2
        /\ Len(VariantsIn(c)) = 2
        /\ Get(VariantsIn(c)[1], "printId") = Str("JA_WTR159")
        /\ Get(VariantsIn(c)[2], "printId") = Str("WTR159")
        /\ Get(VariantsIn(c)[2], "url") = Str("https://cards.fabtcg.com/card/enlightened-strike/")

\* the publication text of the page served to a call
PublicationOf(c) == PageOf(c).production.info

\* C14: the publication info is split on the bullet: "Welcome to Rathe
\* (bullet) Rare" gives set "Welcome to Rathe" and rarity "Rare", both
\* trimmed; a text without the bullet gives the whole trimmed text as set
\* and no rarity.
C14_PublicationSplit ==
    \A c \in Calls :
        (DetailReturned(c) /\ PageOf(c).production.present) =>
            /\ PublicationOf(c) = "Welcome to Rathe " \o Bullet \o " Rare"
                 => /\ Get(result[c], "set") = Str("Welcome to Rathe")
                    /\ Get(result[c], "rarity") = Str("Rare")
            /\ PublicationOf(c) = "  Promo \n"
                 => Get(result[c], "set") = Str("Promo")
            /\ (\A i \in 1 .. Len(PublicationOf(c)) : CharAt(PublicationOf(c), i) # Bullet)
                 => /\ Get(result[c], "set") = Str(Trim(PublicationOf(c)))
                    /\ IsUndefined(Get(result[c], "rarity"))
                    /\ ~HasKey(Obj(DefinedPairs(result[c].obj)), "rarity")

C14_Witness ==
    \E c \in Calls :
        /\ DetailReturned(c)
        /\ PageOf(c).production.present
        /\ PublicationOf(c) = "Welcome to Rathe"
        /\ Get(result[c], "set") = Str("Welcome to Rathe")
        /\ IsUndefined(Get(result[c], "rarity"))

\* C15 (as the specification states it): on a page without rules-tab content
\* the extraction raises no error and the record has enName the empty string
\* and enText absent.
C15_NoRulesTabTextAbsent ==
    \A c \in Calls :
        (Returned(c) /\ DetailPage(c) /\ ~PageOf(c).rules.present) =>
            /\ IsObj(result[c])
            /\ response[c] = Envelope(JSONstringify(result[c]))
            /\ Get(result[c], "enName") = Str("")
            /\ ~HasKey(Obj(DefinedPairs(result[c].obj)), "enText")

-----------------------------------------------------------------------------
(* Properties of the router *)

Answered == routed # NoExchange

RoutedPaths == {"/.well-known/mcp.json", "/sse", "/sse/message", "/mcp"}

\* C16: the discovery path /.well-known/mcp.json is answered with status 200
\* and the JSON manifest on GET, with status 200 and no body on HEAD, and
\* with status 405 and an Allow header listing GET and HEAD on every other
\* method; every path other than the discovery path, /sse, /sse/message and
\* /mcp is answered with status 404.
C16_DiscoveryAndNotFound ==
    Answered =>
        LET request == routed.request
            reply == routed.reply
        IN /\ (request.pathname = "/.well-known/mcp.json" /\ request.method = "GET")
                => /\ reply.kind = "response" /\ reply.status = 200
                   /\ IsStr(reply.body)
                   /\ StartsWith(reply.body.str,
                                 "{\n  \"name\": \"Flesh and Blood Card Search API\",\n  \"version\": \"1.0.0\",\n  \"description\": ")
                   /\ Contains(reply.body.str,
                               "\"sse\": {\n      \"url\": \"" \o request.origin \o "/sse\"")
                   /\ Contains(reply.body.str,
                               "\"rpc\": {\n      \"url\": \"" \o request.origin \o "/mcp\"")
           /\ (request.pathname = "/.well-known/mcp.json" /\ request.method = "HEAD")
                => /\ reply.kind = "response" /\ reply.status = 200
                   /\ reply.body = Null
           /\ (request.pathname = "/.well-known/mcp.json"
                 /\ request.method \notin {"GET", "HEAD"})
                => /\ reply.kind = "response" /\ reply.status = 405
                   /\ <<"Allow", "GET, HEAD">> \in reply.headers
           /\ request.pathname \notin RoutedPaths
                => reply.kind = "response" /\ reply.status = 404

C16_Witness ==
    /\ Answered
    /\ routed.request.pathname = "/.well-known/mcp.json"
    /\ routed.request.method = "HEAD"
    /\ routed.reply.status = 200
    /\ routed.reply.body = Null

\* C19: requests to /sse and /sse/message go to the streaming (SSE) handler
\* and requests to /mcp to the direct-call handler, and both handlers expose
\* the same tools: search_fab_cards, get_fab_card_prints, get_card_detail.
C19_TransportDispatch ==
    Answered =>
        LET request == routed.request
            reply == routed.reply
        IN /\ request.pathname \in {"/sse", "/sse/message"}
                => /\ reply.kind = "dispatch"
                   /\ reply.handler = "serveSSE"
                   /\ reply.tools = {"search_fab_cards", "get_fab_card_prints", "get_card_detail"}
           /\ request.pathname = "/mcp"
                => /\ reply.kind = "dispatch"
                   /\ reply.handler = "serve"
                   /\ reply.tools = {"search_fab_cards", "get_fab_card_prints", "get_card_detail"}

C19_Witness ==
    /\ Answered
    /\ routed.request.pathname = "/mcp"
    /\ routed.request.method = "POST"
    /\ routed.reply = [kind |-> "dispatch", handler |-> "serve", mount |-> "/mcp",
                       tools |-> {"search_fab_cards", "get_fab_card_prints", "get_card_detail"}]

-----------------------------------------------------------------------------
(* Properties of the upstream request *)

Sent(c) == requests[c] # <<>>

\* C17 (as the specification states it): identifiers are percent-encoded, so
\* that for every cardId, printId and query the request targets the same
\* endpoint: the detail request asks for exactly the path segments
\* card/{cardId}/ or card/{cardId}/{printId}/, and the search and prints
\* requests carry exactly one query parameter on their fixed path, its value
\* the percent-encoded identifier (an apostrophe as the %27 the URL parser
\* writes).
C17_IdentifiersKeepEndpoint ==
    \A c \in Calls :
        Sent(c) =>
            LET url == requests[c][1]
                segments == TargetSegments(url)
                parameters == QueryParameters(url)
            IN IF tool[c] = SearchTool
               THEN /\ segments = <<"api", "search", "v1", "cards", "">>
                    /\ parameters =
                         <<"q=" \o QueryEncode(encodeURIComponent(Get(args[c], "query").str))>>
               ELSE IF tool[c] = PrintsTool
               THEN /\ segments = <<"api", "fab", "v1", "prints", "">>
                    /\ parameters =
                         <<"card_id="
                             \o QueryEncode(encodeURIComponent(Get(args[c], "cardId").str))>>
               ELSE /\ parameters = <<>>
                    /\ IF Truthy(Get(args[c], "printId"))
                       THEN segments =
                              <<"card", encodeURIComponent(Get(args[c], "cardId").str),
                                encodeURIComponent(Get(args[c], "printId").str), "">>
                       ELSE segments =
                              <<"card", encodeURIComponent(Get(args[c], "cardId").str), "">>

\* C18: get_card_detail requests {origin}/card/{cardId}/{printId}/ when a
\* print identifier is supplied and {origin}/card/{cardId}/ when none is,
\* the origin being https://cards.fabtcg.com and the identifiers
\* percent-encoded.
C18_DetailUrl ==
    \A c \in Calls :
        (Sent(c) /\ tool[c] = DetailTool) =>
            LET cardId == Get(args[c], "cardId").str
                printId == Get(args[c], "printId")
            IN /\ Len(requests[c]) = 1
               /\ IsUndefined(printId)
                    => requests[c][1] =
                         "https://cards.fabtcg.com/card/" \o encodeURIComponent(cardId) \o "/"
               /\ (IsStr(printId) /\ printId.str # "")
                    => requests[c][1] =
                         "https://cards.fabtcg.com/card/" \o encodeURIComponent(cardId)
                         \o "/" \o encodeURIComponent(printId.str) \o "/"
               /\ (cardId = "WTR159" /\ printId = Str("RF_WTR159"))
                    => requests[c][1] = "https://cards.fabtcg.com/card/WTR159/RF_WTR159/"
               /\ (cardId = "a/b" /\ IsUndefined(printId))
                    => requests[c][1] = "https://cards.fabtcg.com/card/a%2Fb/"

C18_Witness ==
    \E c \in Calls :
        /\ Returned(c)
        /\ tool[c] = DetailTool
        /\ args[c] = DetailArgs(Str("WTR159"), Str("a?b"))
        /\ requests[c] = <<"https://cards.fabtcg.com/card/WTR159/a%3Fb/">>

\* the messages of the TypeErrors a body without a results array raises
MalformedMessages ==
    {"Cannot read properties of null (reading 'results')",
     "Cannot read properties of undefined (reading 'map')",
     "Cannot read properties of null (reading 'map')",
     "data.results.map is not a function"}

\* C20: a 2xx reply whose body has no results array is answered like a
\* network error or a non-2xx status: search and prints return their error
\* message response, never a success payload such as an empty list.
C20_MalformedBodyIsFailure ==
    \A c \in Calls :
        (Returned(c) /\ tool[c] \in {SearchTool, PrintsTool}
           /\ net[c].kind = "ok" /\ ~ListPayload(c))
        => /\ \E m \in MalformedMessages :
                response[c] = Envelope(ErrorPrefix(tool[c]) \o m)
           /\ TextOf(response[c]) # "[]"
           /\ ~IsArr(result[c])

C20_Witness ==
    \E c \in Calls :
        /\ Returned(c)
        /\ tool[c] = SearchTool
        /\ net[c] = Body(Str("<html>Bad Gateway</html>"))
        /\ TextOf(response[c]) =
             ErrorPrefix(SearchTool) \o "Cannot read properties of undefined (reading 'map')"


-----------------------------------------------------------------------------
(* Attributes of the card detail record *)

Attributes == {"pitch", "cost", "power", "defense"}

\* no badge of any attribute is in the markup: every selector of 391-397
\* selects nothing
NoBadges(page) ==
    \A tab \in {page.rules, page.print} :
        ~tab.present
        \/ (tab.pitch = "" /\ tab.cost = "" /\ tab.power = "" /\ tab.defense = "")

\* C21 (as the specification states it): the value of pitch, cost, power and
\* defense is the first non-empty result of its selectors, so it is never the
\* empty string, and when every selector yields nothing the attribute is
\* absent from the record.
C21_AttributeAbsentWhenNothingFound ==
    \A c \in Calls :
        DetailReturned(c) =>
            \A k \in Attributes :
                /\ Get(result[c], k) # Str("")
                /\ NoBadges(PageOf(c))
                      => ~HasKey(Obj(DefinedPairs(result[c].obj)), k)


-----------------------------------------------------------------------------
(* Independence of the extraction rules *)

Regions == {"image", "marker", "rules", "print", "production", "variants"}

Fields ==
    {"cardId", "printId", "imageUrl", "enName", "enText", "enTypebox", "jaName",
     "jaText", "jaTypebox", "pitch", "cost", "power", "defense", "set", "rarity",
     "artist", "variants"}

\* the page with one of its regions taken out of the markup
WithoutRegion(page, region) ==
    IF region = "image" THEN [page EXCEPT !.face = "none"]
    ELSE IF region = "marker"
    THEN [page EXCEPT !.variants =
              [i \in DOMAIN page.variants |-> [page.variants[i] EXCEPT !.current = FALSE]]]
    ELSE IF region = "rules" THEN [page EXCEPT !.rules = NoTab]
    ELSE IF region = "print" THEN [page EXCEPT !.print = NoTab]
    ELSE IF region = "production" THEN [page EXCEPT !.production = NoProduction]
    ELSE [page EXCEPT !.variants = <<>>]

\* the fields of the rule a region belongs to (rules 1-4, 6, 7 of the record)
OwnFields(region) ==
    IF region = "image" THEN {"imageUrl"}
    ELSE IF region = "marker" THEN {"printId"}
    ELSE IF region = "rules" THEN {"enName", "enText", "enTypebox"}
    ELSE IF region = "print" THEN {"jaName", "jaText", "jaTypebox"}
    ELSE IF region = "production" THEN {"set", "rarity", "artist"}
    ELSE {"variants"}

\* the fields whose selectors read inside a region: the attribute selectors
\* search the rules tab, the pitch badge is searched in the whole page, and
\* the active marker lies inside a variant block
ReadFields(region) ==
    OwnFields(region)
    \cup (IF region = "rules" THEN Attributes
          ELSE IF region = "print" THEN {"pitch"}
          ELSE IF region = "variants" THEN {"printId"}
          ELSE {})

\* the record of the same call had the region been missing
RecordWithout(c, region) ==
    CardDetail(Load(HtmlTree(WithoutRegion(PageOf(c), region))), args[c])

\* a field that found nothing: empty or absent; printId falls back to the
\* printId of the call
Degraded(c, k, v) ==
    IF k = "printId" THEN v = Str(OrEmpty(Get(args[c], "printId")))
    ELSE v \in {Str(""), Undefined, Arr(<<>>)}

\* C22 (as the specification states it): when the region of one rule is
\* missing, the fields of that rule are empty or absent and every field of
\* every other rule has the value it has with the region present.
C22_RulesIndependent ==
    \A c \in Calls :
        DetailReturned(c) =>
            \A region \in Regions :
                LET other == RecordWithout(c, region)
                IN /\ \A k \in OwnFields(region) : Degraded(c, k, Get(other, k))
                   /\ \A k \in Fields \ OwnFields(region) :
                          Get(other, k) = Get(result[c], k)

\* C22 (amended): when a region is missing, the fields of its rule are empty
\* or absent and every field whose selectors do not read inside that region
\* has the value it has with the region present.
C22_UnreadRegionLeavesFieldsAlone ==
    \A c \in Calls :
        DetailReturned(c) =>
            \A region \in Regions :
                LET other == RecordWithout(c, region)
                IN /\ \A k \in OwnFields(region) : Degraded(c, k, Get(other, k))
                   /\ \A k \in Fields \ ReadFields(region) :
                          Get(other, k) = Get(result[c], k)

\* a full page with an active block answered; without its rules tab the
\* English texts and the cost are empty and the image address is the same
C22_Witness ==
    \E c \in Calls :
        /\ DetailReturned(c)
        /\ PageOf(c) = ActivePage
        /\ Get(result[c], "enName") = Str("Enlightened Strike")
        /\ Get(result[c], "cost") # Str("")
        /\ LET other == RecordWithout(c, "rules")
           IN /\ Get(other, "enName") = Str("")
              /\ Get(other, "cost") = Str("")
              /\ Get(other, "imageUrl") = Str("https://img/n/WTR159.png")
              /\ Get(other, "jaName") = Get(result[c], "jaName")


-----------------------------------------------------------------------------
(* The stdio variant: the same three tools registered with                  *)
(* server.registerTool on an McpServer connected to a StdioServerTransport. *)

\* server.registerTool(name, { title, description, inputSchema }, handler)
StdioTools == {"search_fab_cards", "get_fab_card_prints", "get_card_detail"}

\* inputSchema of each registration
StdioSchemaAccepts(t, a) ==
    IF t = "search_fab_cards" THEN ZString(Get(a, "query"))
    ELSE IF t = "get_fab_card_prints" THEN ZString(Get(a, "cardId"))
    ELSE ZString(Get(a, "cardId")) /\ ZStringOptional(Get(a, "printId"))

\* const { query } = args; the URL of the search handler
StdioSearchUrl(a) ==
    "https://cards.fabtcg.com/api/search/v1/cards/?q="
        \o encodeURIComponent(Get(a, "query").str)

\* const { cardId } = args; the URL of the prints handler
StdioPrintsUrl(a) ==
    "https://cards.fabtcg.com/api/fab/v1/prints/?card_id="
        \o encodeURIComponent(Get(a, "cardId").str)

\* faulty variant: the page address without its closing slash
StdioDetailUrlNoSlash(a) ==
    IF Truthy(Get(a, "printId"))
    THEN "https://cards.fabtcg.com/card/" \o encodeURIComponent(Get(a, "cardId").str)
             \o "/" \o encodeURIComponent(Get(a, "printId").str)
    ELSE "https://cards.fabtcg.com/card/" \o encodeURIComponent(Get(a, "cardId").str)

\* const { cardId, printId } = args; if (printId) { ... } else { ... }
StdioDetailUrl(a) ==
    IF Truthy(Get(a, "printId"))
    THEN "https://cards.fabtcg.com/card/" \o encodeURIComponent(Get(a, "cardId").str)
             \o "/" \o encodeURIComponent(Get(a, "printId").str) \o "/"
    ELSE "https://cards.fabtcg.com/card/" \o encodeURIComponent(Get(a, "cardId").str)
             \o "/"

StdioRequestUrl(t, a) ==
    IF t = "search_fab_cards" THEN StdioSearchUrl(a)
    ELSE IF t = "get_fab_card_prints" THEN StdioPrintsUrl(a)
    ELSE StdioDetailUrl(a)

\* the message literals of the three catch blocks (Japanese, written in ASCII
\* as in ErrorPrefix):
\*   エラー: カードの検索中に問題が発生しました -
\*   エラー: カードプリント情報の取得中に問題が発生しました -
\*   エラー: カード詳細情報の取得中に問題が発生しました -
StdioErrorPrefix(t) ==
    IF t = "search_fab_cards" THEN "Error: card search failed - "
    ELSE IF t = "get_fab_card_prints" THEN "Error: card print lookup failed - "
    ELSE "Error: card detail lookup failed - "

\* the try block after `await axios.get(url)`.  The statements that read the
\* reply (data.results.map with the twelve and ten key mappings, cheerio.load
\* and the selectors of the record) are those of the worker, statement for
\* statement, and are computed by the same operators.
StdioAfterGet(t, a, got) ==
    IF got.threw THEN got
    ELSE IF t = "search_fab_cards" THEN CardsOf(Results(got.value.data))
    ELSE IF t = "get_fab_card_prints" THEN PrintsOf(Results(got.value.data))
    ELSE IF IsNullish(got.value.data)
         THEN Throw(ReadOfNullish(got.value.data, "length"))
         ELSE Return(CardDetail(Load(HtmlTree(got.value.data.html)), a))

StdioTryBody(t, a, reply) == StdioAfterGet(t, a, AxiosGet(reply))

\* return { content: [{ type: "text", text }] } of the try and the catch block
StdioHandlerReturn(t, outcome) ==
    IF outcome.threw
    THEN [content |-> <<[type |-> "text",
                         text |-> StdioErrorPrefix(t)
                                  \o (IF outcome.error.isError THEN outcome.error.message
                                      ELSE "Unknown error occurred")]>>]
    ELSE [content |-> <<[type |-> "text", text |-> JSONstringify(outcome.value)]>>]

\* C23: the worker and the stdio variant are equivalent on the three tools:
\* they register the same tool names, accept the same arguments, and for the
\* same tool, arguments and upstream reply the worker's request is the URL the
\* stdio handler builds and the worker's response is the one the stdio handler
\* returns.
C23_VariantsEquivalent ==
    /\ Tools = StdioTools
    /\ \A c \in Calls :
        /\ pc[c] = "invalid" => ~StdioSchemaAccepts(tool[c], args[c])
        /\ pc[c] \in {"awaiting", "returned"} =>
              /\ StdioSchemaAccepts(tool[c], args[c])
              /\ requests[c] = <<StdioRequestUrl(tool[c], args[c])>>
        /\ Returned(c) =>
              response[c] =
                  StdioHandlerReturn(tool[c], StdioTryBody(tool[c], args[c], net[c]))

\* a detail call for a named print answered with a page, and the stdio
\* handler builds the two-segment address and returns the same record text
C23_Witness ==
    \E c \in Calls :
        /\ DetailReturned(c)
        /\ Get(args[c], "printId") = Str("RF_WTR159")
        /\ requests[c] = <<"https://cards.fabtcg.com/card/WTR159/RF_WTR159/">>
        /\ requests[c] = <<StdioRequestUrl(tool[c], args[c])>>
        /\ TextOf(response[c]) =
              TextOf(StdioHandlerReturn(tool[c], StdioTryBody(tool[c], args[c], net[c])))
        /\ StartsWith(TextOf(response[c]), "{")


-----------------------------------------------------------------------------
\* C24: the language of every variant entry is "EN" or exactly two uppercase
\* letters A-Z that are the first two characters of the entry's printId; a
\* lowercase prefix, a prefix of one or of three letters, and a prefix that is
\* not followed by an underscore give "EN".
C24_LanguageShape ==
    \A c \in Calls :
        DetailReturned(c) =>
            \A i \in DOMAIN VariantsIn(c) :
                LET id == Get(VariantsIn(c)[i], "printId").str
                    language == Get(VariantsIn(c)[i], "language")
                IN /\ IsStr(language)
                   /\ language.str \in {"EN"} \cup TwoLetters
                   /\ language.str # "EN" =>
                          Len(id) >= 2 /\ language.str = SubSeq(id, 1, 2)
                   /\ id \in {"ja_WTR001", "Ja_WTR001", "J_WTR001", "JAP_WTR001",
                              "JA-WTR001", "WTR001"}
                          => language.str = "EN"

\* a page whose only variant is FR_WTR001 answered with language FR
C24_Witness ==
    \E c \in Calls :
        /\ DetailReturned(c)
        /\ Len(VariantsIn(c)) = 1
        /\ Get(VariantsIn(c)[1], "printId") = Str("FR_WTR001")
        /\ Get(VariantsIn(c)[1], "language") = Str("FR")


-----------------------------------------------------------------------------
\* C25 (as the specification states it): the printId of a card detail record
\* is the print-identifier text of one variant entry that is marked active,
\* the printId of the call, or the empty string, and never the identifiers of
\* several entries written one after the other, however many blocks of the
\* page are marked active.
C25_PrintIdOfOneEntry ==
    \A c \in Calls :
        DetailReturned(c) =>
            Get(result[c], "printId") \in
                {Str(PageOf(c).variants[i].printId) : i \in ActiveBlocks(PageOf(c))}
                \cup {Str(OrEmpty(Get(args[c], "printId"))), Str("")}


-----------------------------------------------------------------------------
\* C26: in every successful get_card_detail response the cardId of the record
\* is the cardId argument of the call, character for character and not
\* percent-encoded, whatever the page holds.
C26_CardIdEchoed ==
    \A c \in Calls :
        DetailReturned(c) =>
            /\ Get(result[c], "cardId") = Get(args[c], "cardId")
            /\ StartsWith(TextOf(response[c]),
                          "{\n  \"cardId\": " \o Quote(Get(args[c], "cardId").str) \o ",")

\* a call for the identifier a/b, sent percent-encoded, answered with a page
C26_Witness ==
    \E c \in Calls :
        /\ DetailReturned(c)
        /\ Get(args[c], "cardId") = Str("a/b")
        /\ requests[c] = <<"https://cards.fabtcg.com/card/a%2Fb/">>
        /\ PageOf(c) = ActivePage
        /\ Get(result[c], "cardId") = Str("a/b")


-----------------------------------------------------------------------------
\* C27: every response a handler returns, for a success and for a failure,
\* has a content sequence of exactly one element, of type "text", and carries
\* no error flag.
C27_OneTextElement ==
    \A c \in Calls :
        Returned(c) =>
            /\ DOMAIN response[c] = {"content"}
            /\ Len(response[c].content) = 1
            /\ DOMAIN response[c].content[1] = {"type", "text"}
            /\ response[c].content[1].type = "text"

\* a call that failed on the network returned its one text element
C27_Witness ==
    \E c \in Calls :
        /\ Returned(c)
        /\ net[c] = NetworkFailure
        /\ result[c] = Undefined
        /\ Len(response[c].content) = 1
        /\ StartsWith(response[c].content[1].text, ErrorPrefix(tool[c]))


-----------------------------------------------------------------------------
(* Order and exclusiveness of the outcome of a call *)

\* the record or list of a returned call is whole: one record per entry of
\* the payload, or a card detail record with every key
Complete(c) ==
    IF tool[c] = DetailTool
    THEN /\ IsObj(result[c])
         /\ {result[c].obj[i][1] : i \in DOMAIN result[c].obj} = Fields
    ELSE /\ IsArr(result[c])
         /\ ListPayload(c)
         /\ Len(result[c].arr) = Len(EntriesOf(c))

\* the response text is the error message alone: no piece of a record
ErrorOnly(c) ==
    /\ result[c] = Undefined
    /\ StartsWith(TextOf(response[c]), ErrorPrefix(tool[c]))
    /\ ~Contains(TextOf(response[c]), "{")
    /\ ~Contains(TextOf(response[c]), "[")

ExclusiveOutcome ==
    \A c \in Calls :
        /\ pc[c] \in {"idle", "invalid", "awaiting"} =>
              result[c] = Undefined /\ response[c] = NoResponse
        /\ Returned(c) =>
              /\ ErrorOnly(c) \/ (Complete(c) /\ TextOf(response[c]) = JSONstringify(result[c]))
              /\ net[c].kind # "ok" => ErrorOnly(c)
              /\ (ListPayload(c) /\ \E i \in DOMAIN EntriesOf(c) : IsNull(EntriesOf(c)[i]))
                    => ErrorOnly(c)

\* a record, a list or a response appears only in a step of a call whose
\* request has been sent and answered
RequestFirst ==
    \A c \in Calls :
        (result'[c] # result[c] \/ response'[c] # response[c]) =>
            /\ pc[c] = "awaiting"
            /\ Len(requests[c]) = 1
            /\ net[c] # NoReply
            /\ requests'[c] = requests[c]

\* C28: in every tool call the upstream request is issued before anything is
\* normalised or extracted, and the outcome is exclusive: a failure of the
\* request or of any later step gives the error message alone, with no partly
\* built record, and otherwise the text is the whole serialized record or list.
C28_RequestThenExclusiveOutcome == []ExclusiveOutcome /\ [][RequestFirst]_vars

\* a search whose second entry makes the mapping throw answered with the
\* error alone, although its first entry could be mapped
C28_Witness ==
    \E c \in Calls :
        /\ Returned(c)
        /\ ListPayload(c)
        /\ Len(EntriesOf(c)) = 2
        /\ IsObj(EntriesOf(c)[1])
        /\ IsNull(EntriesOf(c)[2])
        /\ result[c] = Undefined
        /\ StartsWith(TextOf(response[c]), ErrorPrefix(tool[c]) \o "Cannot read properties of null")


-----------------------------------------------------------------------------
\* C29: the router matches paths exactly and looks at the method on the
\* discovery path only: a request with any method to a path other than
\* /.well-known/mcp.json, /sse, /sse/message and /mcp (/mcp/ and /sse/other
\* among them) is answered 404 and never 405, and a request to /sse,
\* /sse/message or /mcp is handed to its handler whatever its method.
C29_ExactPathsMethodBlind ==
    Answered =>
        LET request == routed.request
            reply == routed.reply
        IN /\ request.pathname \notin
                 {"/.well-known/mcp.json", "/sse", "/sse/message", "/mcp"}
                => /\ reply.kind = "response"
                   /\ reply.status = 404
                   /\ reply.body = Str("Not found")
           /\ request.pathname \in {"/mcp/", "/sse/other"}
                => reply.kind = "response" /\ reply.status = 404
           /\ request.pathname \in {"/sse", "/sse/message", "/mcp"}
                => /\ reply.kind = "dispatch"
                   /\ reply.mount = (IF request.pathname = "/mcp" THEN "/mcp" ELSE "/sse")
           /\ (reply.kind = "response" /\ reply.status = 405)
                => request.pathname = "/.well-known/mcp.json"

\* a DELETE of /sse/other answered 404
C29_Witness ==
    /\ Answered
    /\ routed.request.pathname = "/sse/other"
    /\ routed.request.method = "DELETE"
    /\ routed.reply.kind = "response"
    /\ routed.reply.status = 404


-----------------------------------------------------------------------------
\* the call passed the empty string as printId
EmptyPrintId(c) == tool[c] = DetailTool /\ Get(args[c], "printId") = Str("")

\* the same call with printId left out
Omitted(c) == DetailArgs(Get(args[c], "cardId"), Undefined)

\* C30: a printId argument equal to the empty string is treated exactly like
\* an omitted printId: the request goes to {origin}/card/{cardId}/, the
\* response is the one of the call without printId, and the printId of the
\* record falls back to the identifier of the active entry or to the empty
\* string.
C30_EmptyPrintIdIsOmitted ==
    \A c \in Calls :
        EmptyPrintId(c) =>
            /\ Sent(c) =>
                  /\ requests[c] = <<"https://cards.fabtcg.com/card/"
                                       \o encodeURIComponent(Get(args[c], "cardId").str) \o "/">>
                  /\ requests[c] = <<RequestUrl(DetailTool, Omitted(c))>>
            /\ Returned(c) =>
                  TextOf(response[c]) =
                      TextOf(HandlerReturn(DetailTool, TryBody(DetailTool, Omitted(c), net[c])))
            /\ (DetailReturned(c) /\ Cardinality(ActiveBlocks(PageOf(c))) <= 1) =>
                  Get(result[c], "printId") \in
                      {Str(PageOf(c).variants[i].printId) : i \in ActiveBlocks(PageOf(c))}
                      \cup {Str("")}

\* an empty printId on a page whose active block is WTR159: the one-segment
\* address was requested and the record names WTR159
C30_Witness ==
    \E c \in Calls :
        /\ EmptyPrintId(c)
        /\ DetailReturned(c)
        /\ requests[c] = <<"https://cards.fabtcg.com/card/WTR159/">>
        /\ Cardinality(ActiveBlocks(PageOf(c))) = 1
        /\ Get(result[c], "printId") = Str("WTR159")

====
